---- MODULE Spec2Model ----
(***************************************************************************)
(* A model of the git-vscode-stats extension: the persisted store of       *)
(* saved filter configurations and custom queries (savedConfigsProvider),  *)
(* the report actions of GitStatsCommands with their tool invocations, the *)
(* singleton stats panel (GitStatsWebView), and the pure parsing, sorting  *)
(* and export routines.                                                    *)
(***************************************************************************)
EXTENDS Integers, Sequences, FiniteSets, TLC

VARIABLES
    savedConfigurations,  \* globalState blob "savedConfigurations"
    configurations,       \* SavedConfigurationsProvider.configurations
    customQueries,        \* globalState blob "customQueries"
    queries,              \* CustomQueriesProvider.queries
    lastConfig,           \* history: name -> <<record last saved>> or <<>>
    lastQuery,            \* history: name -> <<query last saved>> or <<>>
    overwritten,          \* history: some save replaced an entry by another record
    configEvent,          \* the last change event of the favourites tree: fired, list seen
    queryEvent,           \* the last change event of the queries tree: fired, list seen
    infoMessages,         \* the "saved" information messages shown so far
    workspace,            \* vscode.workspace.workspaceFolders: "none", "notRepo" or "repo"
    git,                  \* GitStatsCommands.git is defined
    authors,              \* GitStatsCommands.authors
    initPc,               \* position of each initGit call (0: the constructor's)
    errorShown,           \* showErrorMessage has been called for the action (0: constructor)
    pc,                   \* position of each report action
    cmd,                  \* the statsCommand of each report action
    todo,                 \* tool invocations ahead of the action, the head in flight
    invs,                 \* report tool invocations the action has issued
    okCount,              \* local results the action's callback has collected
    swallowed,            \* a failure was caught inside the callback
    uncaught,             \* an invocation outside the callback's try blocks has thrown
    settled,              \* the promise returned by the action's method has settled
    panel,                \* GitStatsWebView.currentPanel and what it displays
    toolLines,            \* lines the tool has printed for a bucketed report
    bucketReport,         \* the bucketed report computed from them ("" before)
    bucketRecords,        \* the records the report parsed from the output
    bucketTable,          \* the rows <<label, count>> of the report's table
    sortInput,            \* what the tool listed: names, each with a commit count
    sortKind,             \* the sorted view computed from it ("" before)
    sortRows,             \* the entries of that view, in the order shown
    csvContent,           \* the text content handed to the panel
    csvStage,             \* "tool", "shown", "exported", "dismissed" or "failed"
    csvHtml,              \* the markup of the panel's stats-content element
    csvFile,              \* what the export wrote to disk
    exportFormat,         \* the format of the export message ("" before)
    notification,         \* the notification the export showed ("" for none)
    filterCmd,            \* the report command triggered with a filter ("" before)
    filterGiven,          \* the filter handed to that command
    toolCalls,            \* the argument lists of the tool invocations it made
    filterShown,          \* the values of the panel's filter inputs
    queryText,            \* the query string of the custom query being run
    queryRun,             \* executeCustomQuery has handed the query to the tool
    queryParts,           \* the argument list it handed to the tool
    repoCommits,          \* the commits of the repository: day, on the current branch
    activityTable,        \* the data rows of the Git Activity table (<<>> before)
    activityTotal,        \* the figure of 'Total commits in period' (-1 before)
    activityChart,        \* the chart's rows <<day, commits>>
    currentPanel,         \* GitStatsWebView.currentPanel: a panel's number, 0 for undefined
    panels,               \* every webview panel created so far: title, column, disposed
    viewCommand,          \* the statsCommand embedded in the panel's script ("" without a panel)
    viewSubject,          \* what the panel's report is of: a report command, a query, a comparison
    viewInputs,           \* the values of the panel's filter inputs
    applyResult,          \* what Apply Filters led to ("" before)
    tableResult,          \* what the tool printed for a tabulated view
    tableKind,            \* the producer of the table text: "" before, "report" or "query"
    tableText,            \* the table text handed to the panel
    tableHtml,            \* the markup _getHtmlForWebview made of it
    dateNow,              \* the clock's date when Git Insights runs: year, month 0..11, day
    chartDone,            \* prepareCommitActivityChart has returned
    chartLabels,          \* the labels of the commit-activity chart
    chartValues           \* the data array of its dataset

storeVars == <<savedConfigurations, configurations, customQueries, queries,
               lastConfig, lastQuery, overwritten, configEvent, queryEvent,
               infoMessages>>

reportVars == <<workspace, git, authors, initPc, errorShown, pc, cmd, todo, invs,
                okCount, swallowed, uncaught, settled, panel>>

bucketVars == <<toolLines, bucketReport, bucketRecords, bucketTable>>

sortVars == <<sortInput, sortKind, sortRows>>

csvVars == <<csvContent, csvStage, csvHtml, csvFile, exportFormat, notification>>

filterVars == <<filterCmd, filterGiven, toolCalls, filterShown>>

queryVars == <<queryText, queryRun, queryParts>>

activityVars == <<repoCommits, activityTable, activityTotal, activityChart>>

panelVars == <<currentPanel, panels>>

applyVars == <<viewCommand, viewSubject, viewInputs, applyResult>>

tableVars == <<tableResult, tableKind, tableText, tableHtml>>

chartVars == <<dateNow, chartDone, chartLabels, chartValues>>

(* What the operations of one part leave alone: the variables of the others. *)
StoreFrame == UNCHANGED <<reportVars, bucketVars, sortVars, csvVars, filterVars, queryVars, activityVars, panelVars, applyVars, tableVars, chartVars>>

ReportFrame == UNCHANGED <<storeVars, bucketVars, sortVars, csvVars, filterVars, queryVars, activityVars, panelVars, applyVars, tableVars, chartVars>>

BucketFrame == UNCHANGED <<storeVars, reportVars, sortVars, csvVars, filterVars, queryVars, activityVars, panelVars, applyVars, tableVars, chartVars>>

SortFrame == UNCHANGED <<storeVars, reportVars, bucketVars, csvVars, filterVars, queryVars, activityVars, panelVars, applyVars, tableVars, chartVars>>

CsvFrame == UNCHANGED <<storeVars, reportVars, bucketVars, sortVars, filterVars, queryVars, activityVars, panelVars, applyVars, tableVars, chartVars>>

FilterFrame == UNCHANGED <<storeVars, reportVars, bucketVars, sortVars, csvVars, queryVars, activityVars, panelVars, applyVars, tableVars, chartVars>>

QueryFrame == UNCHANGED <<storeVars, reportVars, bucketVars, sortVars, csvVars, filterVars, activityVars, panelVars, applyVars, tableVars, chartVars>>

ActivityFrame == UNCHANGED <<storeVars, reportVars, bucketVars, sortVars, csvVars, filterVars, queryVars, panelVars, applyVars, tableVars, chartVars>>

PanelFrame == UNCHANGED <<storeVars, reportVars, bucketVars, sortVars, csvVars, filterVars, queryVars, activityVars, applyVars, tableVars, chartVars>>

ApplyFrame == UNCHANGED <<storeVars, reportVars, bucketVars, sortVars, csvVars, filterVars, queryVars, activityVars, panelVars, tableVars, chartVars>>

TableFrame == UNCHANGED <<storeVars, reportVars, bucketVars, sortVars, csvVars, filterVars, queryVars, activityVars, panelVars, applyVars, chartVars>>

ChartFrame == UNCHANGED <<storeVars, reportVars, bucketVars, sortVars, csvVars, filterVars, queryVars, activityVars, panelVars, applyVars, tableVars>>

vars == <<savedConfigurations, configurations, customQueries, queries,
          lastConfig, lastQuery, overwritten, configEvent, queryEvent, infoMessages,
          workspace, git, authors, initPc, errorShown, pc, cmd, todo, invs,
          okCount, swallowed, uncaught, settled, panel,
          toolLines, bucketReport, bucketRecords, bucketTable,
          sortInput, sortKind, sortRows,
          csvContent, csvStage, csvHtml, csvFile, exportFormat, notification,
          filterCmd, filterGiven, toolCalls, filterShown, queryText, queryRun, queryParts,
          repoCommits, activityTable, activityTotal, activityChart,
          currentPanel, panels,
          viewCommand, viewSubject, viewInputs, applyResult,
          tableResult, tableKind, tableText, tableHtml,
          dateNow, chartDone, chartLabels, chartValues>>

-----------------------------------------------------------------------------
(* Small sets the inputs are drawn from. *)

Names == {"weekly", "mine"}

StatsCommands == {"gitQuickStats.showGitEffort", "gitQuickStats.showCommitsByAuthor"}

DatesAfter == {"", "2024-01-01"}

AuthorsChoice == {"", "alice"}

QueryStrings == {"log --oneline", "shortlog -sn --all"}

(* class SavedConfiguration *)
SavedConfiguration ==
    [name : Names, statsCommand : StatsCommands, dateAfter : DatesAfter,
     dateBefore : {""}, author : AuthorsChoice]

(* class CustomQuery *)
CustomQuery == [name : Names, query : QueryStrings]

-----------------------------------------------------------------------------
(* Array helpers, as the JavaScript built-ins compute them. *)

(* Array.prototype.findIndex on (c) => c.name === name; 0 stands for -1. *)
RECURSIVE FindIndexFrom(_, _, _)
FindIndexFrom(list, name, i) ==
    IF i > Len(list) THEN 0
    ELSE IF list[i].name = name THEN i
    ELSE FindIndexFrom(list, name, i + 1)

FindIndex(list, name) == FindIndexFrom(list, name, 1)

(* A buggy variant: the filter keeps the named entries. *)
FilterKeepName(list, name) == SelectSeq(list, LAMBDA c : c.name = name)

(* Array.prototype.filter on (c) => c.name !== name. *)
FilterOutName(list, name) == SelectSeq(list, LAMBDA c : c.name # name)

(* A buggy variant: the entry is always appended. *)
UpsertAlwaysPush(list, entry) == Append(list, entry)

(* saveConfiguration / saveQuery: replace the entry in place, or push. *)
Upsert(list, entry) ==
    LET existingIndex == FindIndex(list, entry.name)
    IN  IF existingIndex >= 1
        THEN [list EXCEPT ![existingIndex] = entry]
        ELSE Append(list, entry)

-----------------------------------------------------------------------------
(* The store's operations. *)

StoreInit ==
    /\ savedConfigurations = <<>>
    /\ configurations = <<>>
    /\ customQueries = <<>>
    /\ queries = <<>>
    /\ lastConfig = [n \in Names |-> <<>>]
    /\ lastQuery = [n \in Names |-> <<>>]
    /\ overwritten = FALSE
    /\ configEvent = [fired |-> FALSE, seen |-> <<>>]
    /\ queryEvent = [fired |-> FALSE, seen |-> <<>>]
    /\ infoMessages = {}

(* A buggy variant: the event is fired before the list is loaded. *)
refreshFiresFirst(persisted, inMemory) == [list |-> persisted, seen |-> inMemory]

(* refresh of either provider: the in-memory list is loaded from the       *)
(* persisted one, then the change event is fired; seen is the list a       *)
(* listener of the event gets from getChildren.                            *)
refresh(persisted, inMemory) == [list |-> persisted, seen |-> persisted]

(* What SavedConfigurationsProvider.saveConfiguration does to the store,   *)
(* with its trailing refresh.                                              *)
StoreConfiguration(config) ==
    /\ savedConfigurations' = Upsert(savedConfigurations, config)
    /\ configurations' = refresh(savedConfigurations', configurations).list
    /\ configEvent' = [fired |-> TRUE, seen |-> refresh(savedConfigurations', configurations).seen]
    /\ lastConfig' = [lastConfig EXCEPT ![config.name] = <<config>>]
    /\ overwritten' = (overwritten \/
                        (lastConfig[config.name] # <<>>
                           /\ lastConfig[config.name] # <<config>>))
    /\ UNCHANGED <<customQueries, queries, lastQuery, queryEvent>>
    /\ StoreFrame

(* SavedConfigurationsProvider.saveConfiguration: it shows no message. *)
saveConfiguration(config) == StoreConfiguration(config) /\ UNCHANGED infoMessages

(* SavedConfigurationsProvider.deleteConfiguration, with its trailing refresh. *)
deleteConfiguration(name) ==
    /\ savedConfigurations' = FilterOutName(savedConfigurations, name)
    /\ configurations' = refresh(savedConfigurations', configurations).list
    /\ configEvent' = [fired |-> TRUE, seen |-> refresh(savedConfigurations', configurations).seen]
    /\ lastConfig' = [lastConfig EXCEPT ![name] = <<>>]
    /\ UNCHANGED <<customQueries, queries, lastQuery, overwritten, queryEvent,
                   infoMessages>>
    /\ StoreFrame

(* What CustomQueriesProvider.saveQuery does to the store, with its        *)
(* trailing refresh.                                                       *)
StoreQuery(query) ==
    /\ customQueries' = Upsert(customQueries, query)
    /\ queries' = refresh(customQueries', queries).list
    /\ queryEvent' = [fired |-> TRUE, seen |-> refresh(customQueries', queries).seen]
    /\ lastQuery' = [lastQuery EXCEPT ![query.name] = <<query>>]
    /\ overwritten' = (overwritten \/
                        (lastQuery[query.name] # <<>>
                           /\ lastQuery[query.name] # <<query>>))
    /\ UNCHANGED <<savedConfigurations, configurations, lastConfig, configEvent>>
    /\ StoreFrame

(* CustomQueriesProvider.saveQuery: it shows no message. *)
saveQuery(query) == StoreQuery(query) /\ UNCHANGED infoMessages

(* CustomQueriesProvider.deleteQuery, with its trailing refresh. *)
deleteQuery(name) ==
    /\ customQueries' = FilterOutName(customQueries, name)
    /\ queries' = refresh(customQueries', queries).list
    /\ queryEvent' = [fired |-> TRUE, seen |-> refresh(customQueries', queries).seen]
    /\ lastQuery' = [lastQuery EXCEPT ![name] = <<>>]
    /\ UNCHANGED <<savedConfigurations, configurations, lastConfig, overwritten,
                   configEvent, infoMessages>>
    /\ StoreFrame

(* A buggy variant: the tree item's filter has no author. *)
TreeItemWithoutAuthor(config) ==
    [label |-> config.name,
     command |-> config.statsCommand,
     arguments |-> <<[dateAfter |-> config.dateAfter, dateBefore |-> config.dateBefore,
                      author |-> ""]>>]

(* The tree item of one configuration: its command is the stored command,  *)
(* with the stored filter as the only argument.                            *)
TreeItemOf(config) ==
    [label |-> config.name,
     command |-> config.statsCommand,
     arguments |-> <<[dateAfter |-> config.dateAfter, dateBefore |-> config.dateBefore,
                      author |-> config.author]>>]

(* SavedConfigurationsProvider.getChildren. *)
getChildren == [i \in DOMAIN configurations |-> TreeItemOf(configurations[i])]

-----------------------------------------------------------------------------
(* Report actions: GitStatsCommands and the stats panel. *)

MaxTasks == 2

MaxFiles == 2

Tasks == 1..MaxTasks

Procs == 0..MaxTasks

(* The report methods of GitStatsCommands, by the statsCommand they pass on. *)
PlainReports ==
    {"gitQuickStats.showInsights", "gitQuickStats.showDetailedStats",
     "gitQuickStats.showCommitsByAuthor", "gitQuickStats.showCommitsByHourDay",
     "gitQuickStats.showCommitsByMonth", "gitQuickStats.showGitActivity",
     "gitQuickStats.showGitEffort", "gitQuickStats.showCommitsByHourWeek",
     "gitQuickStats.showCommitsByWeekday", "gitQuickStats.showCommitsByYear",
     "gitQuickStats.showContributorStats", "gitQuickStats.showBranchStats",
     "gitQuickStats.showChangelog", "gitQuickStats.showCodeSuggestors",
     "gitQuickStats.executeCustomQuery"}

ReportCommands == PlainReports \cup {"gitQuickStats.showComparison"}

(* The reports whose callback makes a single tool invocation. *)
OneShotReports ==
    {"gitQuickStats.showCommitsByHourDay", "gitQuickStats.showCommitsByHourWeek",
     "gitQuickStats.showCommitsByWeekday", "gitQuickStats.showCommitsByYear",
     "gitQuickStats.executeCustomQuery"}

(* The authors loadAuthors parses from shortlog in the modelled repository. *)
RepoAuthors == <<"alice", "bob">>

NoPanel == [open |-> FALSE, by |-> 0, statsCommand |-> "", n |-> 0,
            partial |-> FALSE, authors |-> <<>>]

(* generateInsights: five awaited invocations inside one try block. *)
InsightsPlan == <<"ins", "ins", "ins", "ins", "ins">>

(* A buggy variant: the hour-of-day report also generates insights. *)
PlanWithInsightsEverywhere(c) ==
    IF c = "gitQuickStats.showGitActivity" THEN <<"plain", "plain">>
    ELSE <<"plain">> \o InsightsPlan

(* The tool invocations a report's callback awaits, in order. "plain": not *)
(* inside any try of the callback; "ins": inside generateInsights' try;    *)
(* "list": a plain invocation whose result is iterated, one "item"         *)
(* invocation (each in its own try) per element.                           *)
Plan(c) ==
    CASE c = "gitQuickStats.showInsights" ->
            InsightsPlan \o <<"plain", "plain", "plain", "plain">>
      [] c = "gitQuickStats.showDetailedStats" ->
            <<"plain">> \o InsightsPlan \o <<"plain">>
      [] c \in {"gitQuickStats.showCommitsByAuthor", "gitQuickStats.showCommitsByMonth",
                "gitQuickStats.showContributorStats", "gitQuickStats.showChangelog",
                "gitQuickStats.showCodeSuggestors"} ->
            <<"plain">> \o InsightsPlan
      [] c \in {"gitQuickStats.showGitActivity", "gitQuickStats.showComparison"} ->
            <<"plain", "plain">>
      [] c \in {"gitQuickStats.showGitEffort", "gitQuickStats.showBranchStats"} ->
            <<"list">>
      [] OTHER -> <<"plain">>

(* A buggy variant: every failure is caught and the callback carries on. *)
OnFailureSwallowAll(kind) == "continue"

(* What the failure of an awaited invocation does to the callback. *)
OnFailure(kind) ==
    CASE kind = "ins" -> "skipInsights"
      [] kind = "item" -> "continue"
      [] OTHER -> "reject"

(* The invocations left once generateInsights' catch has been entered. *)
RECURSIVE DropInsights(_)
DropInsights(seq) ==
    IF seq # <<>> /\ Head(seq) = "ins" THEN DropInsights(Tail(seq)) ELSE seq

(* n per-element invocations. *)
Items(n) == [i \in 1..n |-> "item"]

(* A buggy variant: the result lands in a field every callback shares. *)
RecordResultShared(counts, t) == [u \in DOMAIN counts |-> counts[u] + 1]

(* const result = await ...: the callback keeps the result in a local. *)
RecordResult(counts, t) == [counts EXCEPT ![t] = @ + 1]

(* GitStatsCommands after construction: initGit has run up to its first    *)
(* await (checkIsRepo) when a workspace folder is open.                    *)
ReportInit ==
    /\ workspace \in {"none", "notRepo", "repo"}
    /\ git = (workspace # "none")
    /\ authors = <<>>
    /\ initPc = [p \in Procs |-> IF p = 0 /\ workspace # "none" THEN "check" ELSE "off"]
    /\ errorShown = [p \in Procs |-> p = 0 /\ workspace = "none"]
    /\ pc = [t \in Tasks |-> "idle"]
    /\ cmd = [t \in Tasks |-> ""]
    /\ todo = [t \in Tasks |-> <<>>]
    /\ invs = [t \in Tasks |-> 0]
    /\ okCount = [t \in Tasks |-> 0]
    /\ swallowed = [t \in Tasks |-> FALSE]
    /\ uncaught = [t \in Tasks |-> FALSE]
    /\ settled = [t \in Tasks |-> FALSE]
    /\ panel = NoPanel

(* The report actions at rest, for the specifications of the other parts. *)
ReportParked ==
    /\ workspace = "repo"
    /\ git = TRUE
    /\ authors = RepoAuthors
    /\ initPc = [p \in Procs |-> "off"]
    /\ errorShown = [p \in Procs |-> FALSE]
    /\ pc = [t \in Tasks |-> "idle"]
    /\ cmd = [t \in Tasks |-> ""]
    /\ todo = [t \in Tasks |-> <<>>]
    /\ invs = [t \in Tasks |-> 0]
    /\ okCount = [t \in Tasks |-> 0]
    /\ swallowed = [t \in Tasks |-> FALSE]
    /\ uncaught = [t \in Tasks |-> FALSE]
    /\ settled = [t \in Tasks |-> FALSE]
    /\ panel = NoPanel

(* The code after the git guard: showComparison asks its first question    *)
(* inside the try; every other action calls withProgress without awaiting  *)
(* it, so the callback runs to its first await and the method returns.     *)
Proceed(t, c) ==
    IF c = "gitQuickStats.showComparison"
    THEN /\ pc' = [pc EXCEPT ![t] = "pickType"]
         /\ UNCHANGED <<todo, invs, settled>>
    ELSE /\ pc' = [pc EXCEPT ![t] = "run"]
         /\ todo' = [todo EXCEPT ![t] = Plan(c)]
         /\ invs' = [invs EXCEPT ![t] = @ + 1]
         /\ settled' = [settled EXCEPT ![t] = TRUE]

(* The guard's "if (!this.git) return" after the awaited initGit. *)
GiveUp(t) ==
    /\ pc' = [pc EXCEPT ![t] = "returned"]
    /\ settled' = [settled EXCEPT ![t] = TRUE]
    /\ UNCHANGED <<todo, invs>>

(* A report method is called: executeCommand / executeCustomQuery /        *)
(* showComparison up to the first await.                                   *)
Trigger(t, c) ==
    /\ pc[t] = "idle"
    /\ cmd' = [cmd EXCEPT ![t] = c]
    /\ IF git
       THEN /\ Proceed(t, c)
            /\ UNCHANGED <<git, initPc, errorShown>>
       ELSE IF workspace = "none"
       THEN /\ errorShown' = [errorShown EXCEPT ![t] = TRUE]
            /\ GiveUp(t)
            /\ UNCHANGED <<git, initPc>>
       ELSE /\ git' = TRUE
            /\ initPc' = [initPc EXCEPT ![t] = "check"]
            /\ pc' = [pc EXCEPT ![t] = "init"]
            /\ UNCHANGED <<errorShown, todo, invs, settled>>
    /\ UNCHANGED <<workspace, authors, okCount, swallowed, uncaught, panel>>
    /\ ReportFrame

(* The command identifiers of the leaves of the stats tree view that start *)
(* a report.                                                               *)
TreeReportCommands ==
    {"gitQuickStats.showDetailedStats", "gitQuickStats.showInsights",
     "gitQuickStats.showCommitsByAuthor", "gitQuickStats.showCommitsByHourDay",
     "gitQuickStats.showCommitsByHourWeek", "gitQuickStats.showCommitsByMonth",
     "gitQuickStats.showCommitsByWeekday", "gitQuickStats.showCommitsByYear",
     "gitQuickStats.showContributorStats", "gitQuickStats.showBranchStats",
     "gitQuickStats.showChangelog", "gitQuickStats.showCodeSuggestors",
     "gitQuickStats.showGitEffort", "gitQuickStats.showGitActivity",
     "gitQuickStats.showComparison"}

(* The commands whose registered handler calls the report method. *)
WiredCommands ==
    {"gitQuickStats.showDetailedStats", "gitQuickStats.showCommitsByAuthor",
     "gitQuickStats.showCommitsByHourDay", "gitQuickStats.showCommitsByHourWeek",
     "gitQuickStats.showCommitsByMonth", "gitQuickStats.showGitEffort",
     "gitQuickStats.showGitActivity", "gitQuickStats.showInsights",
     "gitQuickStats.showComparison", "gitQuickStats.executeCustomQuery"}

(* A leaf of the tree view is clicked: the registered handler of its       *)
(* command runs. A handler whose call is commented out returns at once.    *)
RunCommand(t, c) ==
    IF c \in WiredCommands
    THEN Trigger(t, c)
    ELSE /\ pc[t] = "idle"
         /\ cmd' = [cmd EXCEPT ![t] = c]
         /\ GiveUp(t)
         /\ UNCHANGED <<workspace, git, authors, initPc, errorShown, okCount, swallowed,
                        uncaught, panel>>
         /\ ReportFrame

(* What follows an initGit call once it has returned: nothing for the      *)
(* constructor, the guard's second test of this.git for an action.         *)
AfterInit(p, gitNow) ==
    IF p = 0
    THEN UNCHANGED <<pc, todo, invs, settled>>
    ELSE IF gitNow THEN Proceed(p, cmd[p]) ELSE GiveUp(p)

(* initGit: checkIsRepo returns or throws. *)
CheckIsRepoReturns(p, throws) ==
    /\ initPc[p] = "check"
    /\ IF throws \/ workspace # "repo"
       THEN /\ errorShown' = [errorShown EXCEPT ![p] = TRUE]
            /\ git' = FALSE
            /\ initPc' = [initPc EXCEPT ![p] = "done"]
            /\ AfterInit(p, FALSE)
       ELSE IF git
       THEN /\ initPc' = [initPc EXCEPT ![p] = "authors"]
            /\ UNCHANGED <<errorShown, git, pc, todo, invs, settled>>
       ELSE /\ initPc' = [initPc EXCEPT ![p] = "done"]
            /\ AfterInit(p, FALSE)
            /\ UNCHANGED <<errorShown, git>>
    /\ UNCHANGED <<workspace, authors, cmd, okCount, swallowed, uncaught, panel>>
    /\ ReportFrame

(* loadAuthors: the shortlog invocation returns or throws. *)
LoadAuthorsReturns(p, ok) ==
    /\ initPc[p] = "authors"
    /\ authors' = IF ok THEN RepoAuthors ELSE authors
    /\ initPc' = [initPc EXCEPT ![p] = "done"]
    /\ AfterInit(p, git)
    /\ UNCHANGED <<workspace, git, errorShown, cmd, okCount, swallowed, uncaught,
                   panel>>
    /\ ReportFrame

(* A buggy variant: a report whose panel is not open is not shown. *)
RenderOnlyIfOpen(t, n, partial) ==
    IF panel.open
    THEN [open |-> TRUE, by |-> t, statsCommand |-> cmd[t], n |-> n,
          partial |-> partial, authors |-> authors]
    ELSE NoPanel

(* GitStatsWebView.createOrShow followed by updateContent. *)
Render(t, n, partial) ==
    [open |-> TRUE, by |-> t, statsCommand |-> cmd[t], n |-> n,
     partial |-> partial, authors |-> authors]

(* The invocation a callback awaits returns (ok, with n elements when it   *)
(* is a list) or throws; the callback runs on to its next await, to the    *)
(* panel update, or rejects.                                               *)
InvocationReturns(t, ok, n) ==
    /\ pc[t] = "run"
    /\ todo[t] # <<>>
    /\ ok => workspace = "repo"
    /\ (~ok \/ Head(todo[t]) # "list") => n = 0
    /\ uncaught' = [uncaught EXCEPT ![t] = @ \/ (~ok /\ Head(todo[t]) \notin {"ins", "item"})]
    /\ LET kind == Head(todo[t])
           effect == IF ok THEN "continue" ELSE OnFailure(kind)
           rest == CASE effect = "skipInsights" -> DropInsights(Tail(todo[t]))
                     [] ok /\ kind = "list" -> Items(n)
                     [] OTHER -> Tail(todo[t])
           caught == swallowed[t] \/ ~ok
       IN  IF effect = "reject"
           THEN /\ pc' = [pc EXCEPT ![t] = "rejected"]
                /\ todo' = [todo EXCEPT ![t] = <<>>]
                /\ UNCHANGED <<invs, okCount, swallowed, panel>>
           ELSE /\ okCount' = IF ok THEN RecordResult(okCount, t) ELSE okCount
                /\ swallowed' = [swallowed EXCEPT ![t] = caught]
                /\ todo' = [todo EXCEPT ![t] = rest]
                /\ IF rest = <<>>
                   THEN /\ pc' = [pc EXCEPT ![t] = "rendered"]
                        /\ panel' = Render(t, okCount'[t], caught)
                        /\ UNCHANGED invs
                   ELSE /\ invs' = [invs EXCEPT ![t] = @ + 1]
                        /\ UNCHANGED <<pc, panel>>
    /\ UNCHANGED <<workspace, git, authors, initPc, errorShown, cmd, settled>>
    /\ ReportFrame

(* showComparison: a quick pick is answered or dismissed. *)
PromptAnswered(t, answer) ==
    /\ pc[t] \in {"pickType", "pickSource", "pickTarget", "pickStat"}
    /\ answer \in (IF pc[t] = "pickType"
                   THEN {"Branches", "Time Periods", "dismissed"}
                   ELSE {"picked", "dismissed"})
    /\ IF answer = "dismissed"
       THEN GiveUp(t)
       ELSE IF answer = "Branches"
       THEN /\ pc' = [pc EXCEPT ![t] = "branchList"]
            /\ invs' = [invs EXCEPT ![t] = @ + 1]
            /\ UNCHANGED <<todo, settled>>
       ELSE IF pc[t] = "pickStat"
       THEN /\ pc' = [pc EXCEPT ![t] = "run"]
            /\ todo' = [todo EXCEPT ![t] = Plan(cmd[t])]
            /\ invs' = [invs EXCEPT ![t] = @ + 1]
            /\ settled' = [settled EXCEPT ![t] = TRUE]
       ELSE /\ pc' = [pc EXCEPT ![t] =
                        CASE pc[t] = "pickType" -> "pickSource"
                          [] pc[t] = "pickSource" -> "pickTarget"
                          [] OTHER -> "pickStat"]
            /\ UNCHANGED <<todo, invs, settled>>
    /\ UNCHANGED <<workspace, git, authors, initPc, errorShown, cmd, okCount,
                   swallowed, uncaught, panel>>
    /\ ReportFrame

(* showComparison: the awaited git.branch() returns, or throws into the    *)
(* method's catch, which shows "Error comparing stats".                    *)
BranchListReturns(t, ok) ==
    /\ pc[t] = "branchList"
    /\ ok => workspace = "repo"
    /\ IF ok
       THEN /\ pc' = [pc EXCEPT ![t] = "pickSource"]
            /\ okCount' = RecordResult(okCount, t)
            /\ UNCHANGED <<errorShown, settled>>
       ELSE /\ pc' = [pc EXCEPT ![t] = "returned"]
            /\ errorShown' = [errorShown EXCEPT ![t] = TRUE]
            /\ settled' = [settled EXCEPT ![t] = TRUE]
            /\ UNCHANGED okCount
    /\ UNCHANGED <<workspace, git, authors, initPc, cmd, todo, invs, swallowed,
                   uncaught, panel>>
    /\ ReportFrame

(* The user closes the panel: GitStatsWebView.dispose. *)
ClosePanel ==
    /\ panel.open
    /\ panel' = NoPanel
    /\ UNCHANGED <<workspace, git, authors, initPc, errorShown, pc, cmd, todo, invs,
                   okCount, swallowed, uncaught, settled>>
    /\ ReportFrame

-----------------------------------------------------------------------------
(* Text. A string is the sequence of its characters. *)

Digits == <<"0", "1", "2", "3", "4", "5", "6", "7", "8", "9">>

IsDigit(c) == \E i \in 1..10 : Digits[i] = c

DigitValue(c) == (CHOOSE i \in 1..10 : Digits[i] = c) - 1

(* Number.prototype.toString for a natural number. *)
RECURSIVE NatToStr(_)
NatToStr(n) == IF n < 10 THEN <<Digits[n + 1]>> ELSE NatToStr(n \div 10) \o <<Digits[(n % 10) + 1]>>

(* The value of a string of digits. *)
RECURSIVE StrToNat(_)
StrToNat(str) ==
    IF str = <<>> THEN 0
    ELSE 10 * StrToNat(SubSeq(str, 1, Len(str) - 1)) + DigitValue(str[Len(str)])

(* String.prototype.padStart(2, "0"). *)
PadStart2(str) == IF Len(str) < 2 THEN <<"0">> \o str ELSE str

(* String.prototype.split on a one-character separator. *)
RECURSIVE SplitFrom(_, _, _)
SplitFrom(str, sep, cur) ==
    IF str = <<>> THEN <<cur>>
    ELSE IF Head(str) = sep THEN <<cur>> \o SplitFrom(Tail(str), sep, <<>>)
    ELSE SplitFrom(Tail(str), sep, Append(cur, Head(str)))

(* A buggy variant: empty parts are dropped. *)
SplitNonEmpty(str, sep) == SelectSeq(SplitFrom(str, sep, <<>>), LAMBDA part : part # <<>>)

Split(str, sep) == SplitFrom(str, sep, <<>>)

(* Array.prototype.join with a one-character (or empty) separator. *)
RECURSIVE Join(_, _)
Join(parts, sep) ==
    IF parts = <<>> THEN <<>>
    ELSE IF Len(parts) = 1 THEN parts[1]
    ELSE parts[1] \o sep \o Join(Tail(parts), sep)

IsSpace(c) == c \in {" ", "\t", "\n"}

RECURSIVE TrimStart(_)
TrimStart(str) == IF str # <<>> /\ IsSpace(Head(str)) THEN TrimStart(Tail(str)) ELSE str

RECURSIVE TrimEnd(_)
TrimEnd(str) ==
    IF str # <<>> /\ IsSpace(str[Len(str)]) THEN TrimEnd(SubSeq(str, 1, Len(str) - 1)) ELSE str

(* String.prototype.trim. *)
Trim(str) == TrimEnd(TrimStart(str))

(* replace(/"/g, ""). *)
RemoveQuotes(str) == SelectSeq(str, LAMBDA c : c # "\"")

(* The elements of a sequence. *)
Range(seq) == {seq[i] : i \in DOMAIN seq}

-----------------------------------------------------------------------------
(* Record<string, number>: the own properties [k, v] in creation order. *)

ObjHas(obj, key) == \E i \in DOMAIN obj : obj[i].k = key

ObjGet(obj, key) == obj[CHOOSE i \in DOMAIN obj : obj[i].k = key].v

(* obj[key] = value. *)
ObjPut(obj, key, value) ==
    IF ObjHas(obj, key)
    THEN [i \in DOMAIN obj |-> IF obj[i].k = key THEN [k |-> key, v |-> value] ELSE obj[i]]
    ELSE Append(obj, [k |-> key, v |-> value])

-----------------------------------------------------------------------------
(* Bucketed reports: commits by hour of day, hour of week, weekday, month  *)
(* and year.                                                               *)

MaxLines == 3

HoursPerDay == 24

DaysPerWeek == 7

BucketReports ==
    {"gitQuickStats.showCommitsByHourDay", "gitQuickStats.showCommitsByHourWeek",
     "gitQuickStats.showCommitsByWeekday", "gitQuickStats.showCommitsByMonth",
     "gitQuickStats.showCommitsByYear"}

(* Lines the tool may print for --format="%H|%ad" (h stands for the hash), *)
(* with dates of every report's format, and lines of other shapes.         *)
LineSamples ==
    { <<"\"", "h", "|", "0", "7", "\"">>,
      <<"\"", "h", "|", "2", "4", "\"">>,
      <<"\"", "h", "|", "3", "\"">>,
      <<"\"", "h", "|", "3", " ", "1", "4", "\"">>,
      <<"\"", "h", "|", "2", "0", "2", "4", "-", "0", "1", "\"">>,
      <<"\"", "h", "|", "2", "0", "2", "4", "\"">>,
      <<"h">>,
      <<" ">> }

(* The text the tool returns: every line ended by a newline. *)
RECURSIVE ToolResult(_)
ToolResult(lines) ==
    IF lines = <<>> THEN <<>> ELSE Head(lines) \o <<"\n">> \o ToolResult(Tail(lines))

(* result.split("\n").filter(trim).map(split "|").filter(non-empty): the   *)
(* date field of every line that has one.                                  *)
ParseRecords(result) ==
    LET lines == SelectSeq(Split(result, "\n"), LAMBDA line : Trim(line) # <<>>)
        field(line) == LET parts == Split(line, "|")
                       IN  IF Len(parts) >= 2 THEN RemoveQuotes(parts[2]) ELSE <<>>
        fields == [i \in DOMAIN lines |-> field(lines[i])]
    IN  SelectSeq(fields, LAMBDA f : f # <<>>)

(* The keys a report with fixed buckets initialises to 0, in order. *)
HourKeys == [i \in 1..HoursPerDay |-> PadStart2(NatToStr(i - 1))]

WeekdayKeys == [i \in 1..DaysPerWeek |-> NatToStr(i)]

HourWeekKeys ==
    [i \in 1..(DaysPerWeek * HoursPerDay) |->
        NatToStr(((i - 1) \div HoursPerDay) + 1) \o <<" ">>
            \o PadStart2(NatToStr((i - 1) % HoursPerDay))]

FixedKeys(report) ==
    CASE report = "gitQuickStats.showCommitsByHourDay" -> HourKeys
      [] report = "gitQuickStats.showCommitsByHourWeek" -> HourWeekKeys
      [] report = "gitQuickStats.showCommitsByWeekday" -> WeekdayKeys
      [] OTHER -> <<>>

HasFixedBuckets(report) == FixedKeys(report) # <<>>

(* The key a record is counted under; the hour-of-week report rebuilds it  *)
(* from the first two words of the record.                                 *)
KeyOf(report, record) ==
    IF report = "gitQuickStats.showCommitsByHourWeek"
    THEN LET words == Split(record, " ")
             hourStr == IF Len(words) >= 2 THEN words[2]
                        ELSE <<"u", "n", "d", "e", "f", "i", "n", "e", "d">>
         IN  words[1] \o <<" ">> \o hourStr
    ELSE record

(* A buggy variant: the count restarts at 1. *)
CountRestarts(counts, key, fixed) == ObjPut(counts, key, 1)

(* One record counted: a fixed-bucket report counts it only under a key it *)
(* initialised; the month and year reports create the bucket on demand.    *)
Count(counts, key, fixed) ==
    IF fixed
    THEN IF ObjHas(counts, key) THEN ObjPut(counts, key, ObjGet(counts, key) + 1) ELSE counts
    ELSE ObjPut(counts, key, (IF ObjHas(counts, key) THEN ObjGet(counts, key) ELSE 0) + 1)

RECURSIVE CountAll(_, _, _)
CountAll(counts, report, records) ==
    IF records = <<>> THEN counts
    ELSE CountAll(Count(counts, KeyOf(report, Head(records)), HasFixedBuckets(report)),
                  report, Tail(records))

(* The counts of a report over the parsed records. *)
BucketCounts(report, records) ==
    LET keys == FixedKeys(report)
    IN  CountAll([i \in DOMAIN keys |-> [k |-> keys[i], v |-> 0]], report, records)

BucketInit ==
    /\ toolLines = <<>>
    /\ bucketReport = ""
    /\ bucketRecords = <<>>
    /\ bucketTable = <<>>

(* The tool prints one more line. *)
ToolPrints(line) ==
    /\ bucketReport = ""
    /\ Len(toolLines) < MaxLines
    /\ toolLines' = Append(toolLines, line)
    /\ UNCHANGED <<bucketReport, bucketRecords, bucketTable>>
    /\ BucketFrame

(* The callback of a bucketed report, from the tool's result to the table. *)
ShowBucketReport(report) ==
    /\ bucketReport = ""
    /\ bucketReport' = report
    /\ bucketRecords' = ParseRecords(ToolResult(toolLines))
    /\ bucketTable' = BucketCounts(report, bucketRecords')
    /\ UNCHANGED toolLines
    /\ BucketFrame

-----------------------------------------------------------------------------
(* Views sorted by count: the Git Effort and Branch Stats tables, the      *)
(* file-types chart and the hot files of the insights.                     *)

MaxEntries == 4

TopFileTypes == 10

TopHotFiles == 3

(* The largest array index, 2^32 - 2, as its decimal digits. *)
MaxArrayIndex == <<"4", "2", "9", "4", "9", "6", "7", "2", "9", "4">>

SortedViews == {"effort", "branch", "fileTypes", "hotFiles"}

(* Names the tool may list: files, branches, lines of log --name-only. *)
NameSamples == { <<"m">>, <<"7">>, <<"1", "0">>, <<"a", ".", "7">> }

CountSamples == {1, 2}

(* a <= b for two digit strings of the same length. *)
RECURSIVE DigitsLeq(_, _)
DigitsLeq(a, b) ==
    \/ a = <<>>
    \/ DigitValue(Head(a)) < DigitValue(Head(b))
    \/ Head(a) = Head(b) /\ DigitsLeq(Tail(a), Tail(b))

(* An integer index in canonical form: such property keys are enumerated   *)
(* first, in ascending numeric order.                                      *)
IsArrayIndex(key) ==
    /\ key # <<>>
    /\ \A i \in DOMAIN key : IsDigit(key[i])
    /\ Len(key) > 1 => key[1] # "0"
    /\ Len(key) <= Len(MaxArrayIndex)
    /\ Len(key) = Len(MaxArrayIndex) => DigitsLeq(key, MaxArrayIndex)

(* The entries of obj whose key is an array index, by ascending index. *)
RECURSIVE IndexEntries(_)
IndexEntries(obj) ==
    LET idx == SelectSeq(obj, LAMBDA e : IsArrayIndex(e.k))
    IN  IF idx = <<>> THEN <<>>
        ELSE LET least == CHOOSE e \in Range(idx) :
                              \A f \in Range(idx) : StrToNat(e.k) <= StrToNat(f.k)
             IN  <<least>> \o IndexEntries(SelectSeq(idx, LAMBDA e : e.k # least.k))

(* Object.entries: integer indices ascending, then the other keys in       *)
(* creation order.                                                         *)
ObjEntries(obj) == IndexEntries(obj) \o SelectSeq(obj, LAMBDA e : ~IsArrayIndex(e.k))

(* One element placed after every element that does not compare greater. *)
RECURSIVE InsertByCountDesc(_, _)
InsertByCountDesc(sorted, e) ==
    IF sorted = <<>> THEN <<e>>
    ELSE IF Head(sorted).v >= e.v THEN <<Head(sorted)>> \o InsertByCountDesc(Tail(sorted), e)
    ELSE <<e>> \o sorted

(* Array.prototype.sort((a, b) => b[1] - a[1]): stable, descending. *)
RECURSIVE SortByCountDesc(_)
SortByCountDesc(entries) ==
    IF entries = <<>> THEN <<>>
    ELSE InsertByCountDesc(SortByCountDesc(SubSeq(entries, 1, Len(entries) - 1)),
                           entries[Len(entries)])

(* Array.prototype.slice(0, n). *)
SliceTo(seq, n) == SubSeq(seq, 1, IF Len(seq) < n THEN Len(seq) ELSE n)

(* String.prototype.toLowerCase over the modelled characters. *)
ToLowerCase(str) == [i \in DOMAIN str |-> IF str[i] = "T" THEN "t" ELSE str[i]]

(* file.includes(".") ? file.split(".").pop().toLowerCase() : "none". *)
ExtensionOf(file) ==
    LET parts == Split(file, ".")
    IN  IF Len(parts) >= 2 THEN ToLowerCase(parts[Len(parts)]) ELSE <<"n", "o", "n", "e">>

(* The property key a listed name is counted under. *)
SortKey(kind, name) == IF kind = "fileTypes" THEN ExtensionOf(name) ELSE name

(* fileStats[file] = count (effort, branch); counts[key]++ (the others). *)
RECURSIVE Tally(_, _, _)
Tally(counts, kind, input) ==
    IF input = <<>> THEN counts
    ELSE LET key == SortKey(kind, Head(input).k)
             value == IF kind \in {"effort", "branch"} THEN Head(input).v
                      ELSE (IF ObjHas(counts, key) THEN ObjGet(counts, key) ELSE 0) + 1
         IN  Tally(ObjPut(counts, key, value), kind, Tail(input))

(* The entries shown: sorted by count, the charts cut to their top n. *)
SortedView(kind, input) ==
    LET sorted == SortByCountDesc(ObjEntries(Tally(<<>>, kind, input)))
    IN  CASE kind = "fileTypes" -> SliceTo(sorted, TopFileTypes)
          [] kind = "hotFiles" -> SliceTo(sorted, TopHotFiles)
          [] OTHER -> sorted

SortInit ==
    /\ sortInput = <<>>
    /\ sortKind = ""
    /\ sortRows = <<>>

(* The tool lists one more name (with the commit count found for it). *)
ToolLists(name, count) ==
    /\ sortKind = ""
    /\ Len(sortInput) < MaxEntries
    /\ sortInput' = Append(sortInput, [k |-> name, v |-> count])
    /\ UNCHANGED <<sortKind, sortRows>>
    /\ SortFrame

(* A report sorts what was listed. *)
ShowSorted(kind) ==
    /\ sortKind = ""
    /\ sortKind' = kind
    /\ sortRows' = SortedView(kind, sortInput)
    /\ UNCHANGED sortInput
    /\ SortFrame

-----------------------------------------------------------------------------
(* The table of the panel and its CSV export. Markup is a sequence of      *)
(* tokens: a tag is one token, a character of text is one token.           *)

MaxChars == 7

(* Characters of tool output: a letter, a double quote, a blank, the cell  *)
(* delimiter, a dash and a line break.                                     *)
ContentChars == {"a", "\"", " ", "|", "-", "\n"}

(* String.prototype.includes for a substring. *)
Includes(str, sub) ==
    \E i \in 1..(Len(str) - Len(sub) + 1) : SubSeq(str, i, i + Len(sub) - 1) = sub

RECURSIVE Flatten(_)
Flatten(seqs) == IF seqs = <<>> THEN <<>> ELSE Head(seqs) \o Flatten(Tail(seqs))

(* content.split("\n").filter((row) => row.trim() !== ""). *)
ContentRows(content) == SelectSeq(Split(content, "\n"), LAMBDA row : Trim(row) # <<>>)

(* rows[i].includes("-|-") || rows[i].match(/^[-|]+$/). *)
IsSeparatorRow(row) ==
    \/ Includes(row, <<"-", "|", "-">>)
    \/ row # <<>> /\ \A i \in DOMAIN row : row[i] \in {"-", "|"}

(* row.split("|").map((cell) => cell.trim()). *)
CellsOf(row) == LET cells == Split(row, "|") IN [i \in DOMAIN cells |-> Trim(cells[i])]

(* The rows of the table, each the values of its cells: the first row is   *)
(* the header, separator rows after it are skipped.                        *)
TableCells(content) ==
    LET rows == ContentRows(content)
        shown == <<Head(rows)>> \o SelectSeq(Tail(rows), LAMBDA row : ~IsSeparatorRow(row))
    IN  [i \in DOMAIN shown |-> CellsOf(shown[i])]

(* <tr> and one <th> or <td> element per cell. *)
RowMarkup(cells, open, close) ==
    <<"<tr>">> \o Flatten([i \in DOMAIN cells |-> <<open>> \o cells[i] \o <<close>>]) \o <<"</tr>">>

(* The htmlContent of _getHtmlForWebview. *)
HtmlContent(content) ==
    IF Includes(content, <<"|">>)
    THEN IF ContentRows(content) # <<>>
         THEN LET table == TableCells(content)
              IN  <<"<table>">>
                  \o RowMarkup(Head(table), "<th>", "</th>")
                  \o Flatten([i \in DOMAIN Tail(table) |->
                                 RowMarkup(Tail(table)[i], "<td>", "</td>")])
                  \o <<"</table>">>
         ELSE <<>>
    ELSE <<"<pre>">> \o content \o <<"</pre>">>

(* The first position at or after from that holds one of the tokens. *)
RECURSIVE FirstAt(_, _, _)
FirstAt(tokens, among, from) ==
    IF from > Len(tokens) THEN 0
    ELSE IF tokens[from] \in among THEN from
    ELSE FirstAt(tokens, among, from + 1)

(* String.prototype.match(/<open>(.+?)<close>/g): the matches, left to     *)
(* right, as [a, b], the positions of the opening and closing tag. The     *)
(* group takes at least one token and then as few as possible; without the *)
(* s flag it takes no line break.                                          *)
RECURSIVE MatchAll(_, _, _, _, _)
MatchAll(tokens, openers, closers, dotAll, from) ==
    LET a == FirstAt(tokens, openers, from)
        b == IF a = 0 THEN 0 ELSE FirstAt(tokens, closers, a + 2)
    IN  IF a = 0 THEN <<>>
        ELSE IF b = 0 \/ (~dotAll /\ \E i \in (a + 1)..(b - 1) : tokens[i] = "\n")
        THEN MatchAll(tokens, openers, closers, dotAll, a + 1)
        ELSE <<[a |-> a, b |-> b]>> \o MatchAll(tokens, openers, closers, dotAll, b + 1)

(* content.replace(/"/g, '""'). *)
DoubleQuotes(str) == Flatten([i \in DOMAIN str |-> IF str[i] = "\"" THEN <<"\"", "\"">> ELSE <<str[i]>>])

(* `"${content.replace(/"/g, '""')}"`. *)
CsvField(content) == <<"\"">> \o DoubleQuotes(content) \o <<"\"">>

(* One row of convertToCSV: the cells matched in it, quoted, joined by ",". *)
CsvLine(row) ==
    LET cells == MatchAll(row, {"<th>", "<td>"}, {"</th>", "</td>"}, FALSE, 1)
    IN  IF cells = <<>> THEN <<>>
        ELSE Join([i \in DOMAIN cells |->
                      CsvField(SubSeq(row, cells[i].a + 1, cells[i].b - 1))], <<",">>)

convertToCSV(data) ==
    LET rows == MatchAll(data, {"<tr>"}, {"</tr>"}, TRUE, 1)
    IN  IF rows = <<>> THEN <<>>
        ELSE Join([i \in DOMAIN rows |-> CsvLine(SubSeq(data, rows[i].a, rows[i].b))], <<"\n">>)

(* The result array of convertToJSON: one object per data row in which    *)
(* cells were matched, mapping each header to the value at its index, or   *)
(* to "" when the row has no value there.                                  *)
JsonResult(data) ==
    LET rows == MatchAll(data, {"<tr>"}, {"</tr>"}, TRUE, 1)
        rowAt(i) == SubSeq(data, rows[i].a, rows[i].b)
        contents(row, cells) ==
            [j \in DOMAIN cells |-> SubSeq(row, cells[j].a + 1, cells[j].b - 1)]
        headerCells == MatchAll(rowAt(1), {"<th>"}, {"</th>"}, FALSE, 1)
        headers == contents(rowAt(1), headerCells)
        dataCells(i) == MatchAll(rowAt(i), {"<td>"}, {"</td>"}, FALSE, 1)
        RECURSIVE rowObject(_, _, _)
        rowObject(obj, values, index) ==
            IF index > Len(headers) THEN obj
            ELSE rowObject(ObjPut(obj, headers[index],
                                  IF index <= Len(values) THEN values[index] ELSE <<>>),
                           values, index + 1)
        RECURSIVE result(_)
        result(i) ==
            IF i > Len(rows) THEN <<>>
            ELSE IF dataCells(i) = <<>> THEN result(i + 1)
            ELSE <<rowObject(<<>>, contents(rowAt(i), dataCells(i)), 1)>> \o result(i + 1)
    IN  IF Len(rows) < 2 THEN <<>>
        ELSE IF headerCells = <<>> THEN <<>>
        ELSE result(2)

(* A JSON string literal: double quotes, backslashes and line breaks are   *)
(* escaped.                                                                *)
JsonString(str) ==
    <<"\"">>
    \o Flatten([i \in DOMAIN str |->
                   CASE str[i] = "\"" -> <<"\\", "\"">>
                     [] str[i] = "\\" -> <<"\\", "\\">>
                     [] str[i] = "\n" -> <<"\\", "n">>
                     [] OTHER -> <<str[i]>>])
    \o <<"\"">>

(* JSON.stringify(result, null, 2) for an array of objects of strings. *)
JsonStringify(result) ==
    LET member(e) == <<" ", " ", " ", " ">> \o JsonString(e.k) \o <<":", " ">> \o JsonString(e.v)
        object(obj) ==
            IF obj = <<>> THEN <<" ", " ", "{", "}">>
            ELSE <<" ", " ", "{", "\n">>
                 \o Join([i \in DOMAIN ObjEntries(obj) |-> member(ObjEntries(obj)[i])],
                         <<",", "\n">>)
                 \o <<"\n", " ", " ", "}">>
    IN  IF result = <<>> THEN <<"[", "]">>
        ELSE <<"[", "\n">>
             \o Join([i \in DOMAIN result |-> object(result[i])], <<",", "\n">>)
             \o <<"\n", "]">>

convertToJSON(data) == JsonStringify(JsonResult(data))

(* Titles of the panel. *)
TitleSamples == { <<"H">>, <<"G", " ", "E">> }

(* The standalone page: the title twice and the markup in a div. *)
convertToHTML(title, data) ==
    <<"<!DOCTYPE html>", "<html>", "<head>", "<title>">> \o title
    \o <<"</title>", "<style>", "</style>", "</head>", "<body>", "<h1>">> \o title
    \o <<"</h1>", "<div>">> \o data \o <<"</div>", "</body>", "</html>">>

CsvInit ==
    /\ csvContent = <<>>
    /\ csvStage = "tool"
    /\ csvHtml = <<>>
    /\ csvFile = <<>>
    /\ exportFormat = ""
    /\ notification = ""

(* The report's content grows by one character. *)
ContentGrows(c) ==
    /\ csvStage = "tool"
    /\ Len(csvContent) < MaxChars
    /\ csvContent' = Append(csvContent, c)
    /\ UNCHANGED <<csvStage, csvHtml, csvFile, exportFormat, notification>>
    /\ CsvFrame

(* updateContent: the panel renders the content. *)
updateContent ==
    /\ csvStage = "tool"
    /\ csvStage' = "shown"
    /\ csvHtml' = HtmlContent(csvContent)
    /\ UNCHANGED <<csvContent, csvFile, exportFormat, notification>>
    /\ CsvFrame

(* A buggy variant: success is announced whatever happened. *)
ExportNotificationAlways(shown, saveChosen, writeThrows) == "Successfully exported"

(* The notification after an export: none when the dialog is dismissed,    *)
(* the error when the write throws, success otherwise.                     *)
ExportNotification(shown, saveChosen, writeThrows) ==
    IF ~saveChosen THEN shown
    ELSE IF writeThrows THEN "Export failed"
    ELSE "Successfully exported"

(* handleExport(format, title, data), data being the markup of the        *)
(* stats-content element. Nothing is written when the save dialog is       *)
(* dismissed; a write that throws is caught and reported.                  *)
handleExport(format, title, saveChosen, writeThrows) ==
    /\ csvStage = "shown"
    /\ ~saveChosen => ~writeThrows
    /\ exportFormat' = format
    /\ csvStage' = IF ~saveChosen THEN "dismissed"
                   ELSE IF writeThrows THEN "failed" ELSE "exported"
    /\ csvFile' = IF saveChosen /\ ~writeThrows
                  THEN CASE format = "csv" -> convertToCSV(csvHtml)
                         [] format = "json" -> convertToJSON(csvHtml)
                         [] format = "html" -> convertToHTML(title, csvHtml)
                  ELSE csvFile
    /\ notification' = ExportNotification(notification, saveChosen, writeThrows)
    /\ UNCHANGED <<csvContent, csvHtml>>
    /\ CsvFrame

-----------------------------------------------------------------------------
(* Reports triggered with a filter, and the argument lists they hand to    *)
(* the tool. An argument is an option and the value appended to it.        *)

DatesBefore == {"", "2024-12-31"}

(* The filters a command can be given: from the panel's filter bar or from *)
(* a saved configuration.                                                  *)
Filters == [dateAfter : DatesAfter, dateBefore : DatesBefore, author : AuthorsChoice]

(* The default parameter value {}: no field is set. *)
EmptyFilter == [dateAfter |-> "", dateBefore |-> "", author |-> ""]

(* The commands registered with a handler that starts a report from the    *)
(* filter it is given.                                                     *)
LiveFilterReports ==
    {"gitQuickStats.showDetailedStats", "gitQuickStats.showCommitsByAuthor",
     "gitQuickStats.showCommitsByHourDay", "gitQuickStats.showCommitsByHourWeek",
     "gitQuickStats.showCommitsByMonth", "gitQuickStats.showGitEffort",
     "gitQuickStats.showGitActivity", "gitQuickStats.showInsights"}

(* The commands registered with a handler whose body is commented out. *)
EmptyHandlerReports ==
    {"gitQuickStats.showCommitsByWeekday", "gitQuickStats.showCommitsByYear",
     "gitQuickStats.showContributorStats", "gitQuickStats.showBranchStats",
     "gitQuickStats.showChangelog", "gitQuickStats.showCodeSuggestors"}

Arg(option) == [opt |-> option, val |-> ""]

(* getDateFilterArgs: the dates default to one month ago and to today, as  *)
(* the clock gives them; the author is added only when set.                *)
getDateFilterArgs(filter) ==
    <<[opt |-> "--after=",
       val |-> IF filter.dateAfter # "" THEN filter.dateAfter ELSE "one month ago"],
      [opt |-> "--before=",
       val |-> IF filter.dateBefore # "" THEN filter.dateBefore ELSE "today"]>>
    \o (IF filter.author # "" THEN <<[opt |-> "--author=", val |-> filter.author]>> ELSE <<>>)

(* The filter executeCommand hands to the report's callback: its fourth    *)
(* argument, which the hour-of-week report leaves out.                     *)
CallbackFilter(command, filter) ==
    IF command = "gitQuickStats.showCommitsByHourWeek" THEN EmptyFilter ELSE filter

(* The invocations of generateInsights(filter). *)
InsightsCalls(filter) ==
    << <<Arg("log"), Arg("--format=\"%ad\""), Arg("--date=format:%u"), Arg("--all")>>
           \o getDateFilterArgs(filter),
       <<Arg("shortlog"), Arg("-sn"), Arg("--all")>>,
       <<Arg("log"), Arg("--reverse"), Arg("--format=\"%ad\""), Arg("--date=short"), Arg("--all")>>,
       <<Arg("log"), Arg("--format=\"\""), Arg("--numstat")>>,
       <<Arg("log"), Arg("--name-only"), Arg("--all")>> >>

(* The argument lists of the invocations a report's callback makes, in     *)
(* order, for a repository in which ls-files lists the one file f.         *)
CallbackCalls(command, filter) ==
    LET filterArgs == getDateFilterArgs(filter)
        byDate(format) ==
            << <<Arg("log"), Arg("--format=\"%H|%ad\""), Arg(format), Arg("--all")>>
                   \o filterArgs >>
    IN  CASE command = "gitQuickStats.showDetailedStats" ->
                 << <<Arg("log"), Arg("--format=commit"), Arg("--numstat")>> \o filterArgs >>
                 \o InsightsCalls(filter)
                 \o << <<Arg("log"), Arg("--name-only")>> \o filterArgs >>
          [] command = "gitQuickStats.showCommitsByAuthor" ->
                 << <<Arg("shortlog"), Arg("-sn"), Arg("--no-merges")>> \o filterArgs >>
                 \o InsightsCalls(filter)
          [] command = "gitQuickStats.showCommitsByHourDay" -> byDate("--date=format-local:%H")
          [] command = "gitQuickStats.showCommitsByHourWeek" -> byDate("--date=format-local:%u %H")
          [] command = "gitQuickStats.showCommitsByMonth" ->
                 byDate("--date=format-local:%Y-%m") \o InsightsCalls(filter)
          [] command = "gitQuickStats.showGitEffort" ->
                 << <<Arg("ls-files")>>,
                    <<Arg("log"), Arg("--follow"), Arg("--format=\"%H\""), Arg("--"), Arg("f")>>
                        \o filterArgs >>
          [] command = "gitQuickStats.showGitActivity" ->
                 << <<Arg("log"), Arg("--all"), Arg("--format=\"%ar|%an|%s\"")>> \o filterArgs,
                    <<Arg("log"), Arg("--format=\"%at|%s\"")>> \o filterArgs >>
          [] command = "gitQuickStats.showInsights" ->
                 InsightsCalls(filter)
                 \o << <<Arg("shortlog"), Arg("-sn"), Arg("--all")>>,
                       <<Arg("rev-list"), Arg("--count"), Arg("--all")>>,
                       <<Arg("log"), [opt |-> "--after=", val |-> "one year ago"],
                         Arg("--format=\"%ad\""), Arg("--date=format:%Y-%m"), Arg("--all")>> >>
          [] OTHER -> <<>>

FilterInit ==
    /\ filterCmd = ""
    /\ filterGiven = EmptyFilter
    /\ toolCalls = <<>>
    /\ filterShown = EmptyFilter

(* updateContent: the values of the filter inputs, the dates defaulting to *)
(* six months ago and to today.                                            *)
FilterInputs(filter) ==
    [dateAfter |-> IF filter.dateAfter # "" THEN filter.dateAfter ELSE "six months ago",
     dateBefore |-> IF filter.dateBefore # "" THEN filter.dateBefore ELSE "today",
     author |-> filter.author]

(* A registered report command runs with a filter, in a repository, and    *)
(* the panel is updated with the filter executeCommand was given.          *)
RunWithFilter(command, filter) ==
    /\ filterCmd = ""
    /\ filterCmd' = command
    /\ filterGiven' = filter
    /\ toolCalls' = CallbackCalls(command, CallbackFilter(command, filter))
    /\ filterShown' = IF command \in LiveFilterReports
                      THEN FilterInputs(CallbackFilter(command, filter))
                      ELSE filterShown
    /\ FilterFrame

-----------------------------------------------------------------------------
(* The gitQuickStats.saveConfiguration command. Command identifiers and    *)
(* quick-pick labels are strings; Spell gives the characters of each.      *)

(* The strings the command handles or can build. *)
SpelledStrings ==
    {"gitQuickStats.show",
     "Detailed Git Stats",
     "Commits by Author",
     "Commits by Hour/Day",
     "Git Activity",
     "gitQuickStats.showDetailedStats",
     "gitQuickStats.showCommitsByAuthor",
     "gitQuickStats.showCommitsByHourDay",
     "gitQuickStats.showCommitsByHourWeek",
     "gitQuickStats.showCommitsByMonth",
     "gitQuickStats.showCommitsByWeekday",
     "gitQuickStats.showCommitsByYear",
     "gitQuickStats.showContributorStats",
     "gitQuickStats.showBranchStats",
     "gitQuickStats.showChangelog",
     "gitQuickStats.showCodeSuggestors",
     "gitQuickStats.showGitEffort",
     "gitQuickStats.showGitActivity",
     "gitQuickStats.showInsights",
     "gitQuickStats.showComparison",
     "gitQuickStats.executeCustomQuery",
     "gitQuickStats.showDetailedGitStats",
     "gitQuickStats.showCommitsbyAuthor",
     "gitQuickStats.showCommitsbyHour/Day"}

(* The characters of each string. *)
Spell(str) ==
    CASE str = "" -> <<>>
      [] str = "gitQuickStats.show" ->
          <<"g", "i", "t", "Q", "u", "i", "c", "k", "S", "t", "a", "t",
              "s", ".", "s", "h", "o", "w">>
      [] str = "Detailed Git Stats" ->
          <<"D", "e", "t", "a", "i", "l", "e", "d", " ", "G", "i", "t",
              " ", "S", "t", "a", "t", "s">>
      [] str = "Commits by Author" ->
          <<"C", "o", "m", "m", "i", "t", "s", " ", "b", "y", " ", "A",
              "u", "t", "h", "o", "r">>
      [] str = "Commits by Hour/Day" ->
          <<"C", "o", "m", "m", "i", "t", "s", " ", "b", "y", " ", "H",
              "o", "u", "r", "/", "D", "a", "y">>
      [] str = "Git Activity" ->
          <<"G", "i", "t", " ", "A", "c", "t", "i", "v", "i", "t", "y">>
      [] str = "gitQuickStats.showDetailedStats" ->
          <<"g", "i", "t", "Q", "u", "i", "c", "k", "S", "t", "a", "t",
              "s", ".", "s", "h", "o", "w", "D", "e", "t", "a",
              "i", "l", "e", "d", "S", "t", "a", "t", "s">>
      [] str = "gitQuickStats.showCommitsByAuthor" ->
          <<"g", "i", "t", "Q", "u", "i", "c", "k", "S", "t", "a", "t",
              "s", ".", "s", "h", "o", "w", "C", "o", "m", "m",
              "i", "t", "s", "B", "y", "A", "u", "t", "h", "o",
              "r">>
      [] str = "gitQuickStats.showCommitsByHourDay" ->
          <<"g", "i", "t", "Q", "u", "i", "c", "k", "S", "t", "a", "t",
              "s", ".", "s", "h", "o", "w", "C", "o", "m", "m",
              "i", "t", "s", "B", "y", "H", "o", "u", "r", "D",
              "a", "y">>
      [] str = "gitQuickStats.showCommitsByHourWeek" ->
          <<"g", "i", "t", "Q", "u", "i", "c", "k", "S", "t", "a", "t",
              "s", ".", "s", "h", "o", "w", "C", "o", "m", "m",
              "i", "t", "s", "B", "y", "H", "o", "u", "r", "W",
              "e", "e", "k">>
      [] str = "gitQuickStats.showCommitsByMonth" ->
          <<"g", "i", "t", "Q", "u", "i", "c", "k", "S", "t", "a", "t",
              "s", ".", "s", "h", "o", "w", "C", "o", "m", "m",
              "i", "t", "s", "B", "y", "M", "o", "n", "t", "h">>
      [] str = "gitQuickStats.showCommitsByWeekday" ->
          <<"g", "i", "t", "Q", "u", "i", "c", "k", "S", "t", "a", "t",
              "s", ".", "s", "h", "o", "w", "C", "o", "m", "m",
              "i", "t", "s", "B", "y", "W", "e", "e", "k", "d",
              "a", "y">>
      [] str = "gitQuickStats.showCommitsByYear" ->
          <<"g", "i", "t", "Q", "u", "i", "c", "k", "S", "t", "a", "t",
              "s", ".", "s", "h", "o", "w", "C", "o", "m", "m",
              "i", "t", "s", "B", "y", "Y", "e", "a", "r">>
      [] str = "gitQuickStats.showContributorStats" ->
          <<"g", "i", "t", "Q", "u", "i", "c", "k", "S", "t", "a", "t",
              "s", ".", "s", "h", "o", "w", "C", "o", "n", "t",
              "r", "i", "b", "u", "t", "o", "r", "S", "t", "a",
              "t", "s">>
      [] str = "gitQuickStats.showBranchStats" ->
          <<"g", "i", "t", "Q", "u", "i", "c", "k", "S", "t", "a", "t",
              "s", ".", "s", "h", "o", "w", "B", "r", "a", "n",
              "c", "h", "S", "t", "a", "t", "s">>
      [] str = "gitQuickStats.showChangelog" ->
          <<"g", "i", "t", "Q", "u", "i", "c", "k", "S", "t", "a", "t",
              "s", ".", "s", "h", "o", "w", "C", "h", "a", "n",
              "g", "e", "l", "o", "g">>
      [] str = "gitQuickStats.showCodeSuggestors" ->
          <<"g", "i", "t", "Q", "u", "i", "c", "k", "S", "t", "a", "t",
              "s", ".", "s", "h", "o", "w", "C", "o", "d", "e",
              "S", "u", "g", "g", "e", "s", "t", "o", "r", "s">>
      [] str = "gitQuickStats.showGitEffort" ->
          <<"g", "i", "t", "Q", "u", "i", "c", "k", "S", "t", "a", "t",
              "s", ".", "s", "h", "o", "w", "G", "i", "t", "E",
              "f", "f", "o", "r", "t">>
      [] str = "gitQuickStats.showGitActivity" ->
          <<"g", "i", "t", "Q", "u", "i", "c", "k", "S", "t", "a", "t",
              "s", ".", "s", "h", "o", "w", "G", "i", "t", "A",
              "c", "t", "i", "v", "i", "t", "y">>
      [] str = "gitQuickStats.showInsights" ->
          <<"g", "i", "t", "Q", "u", "i", "c", "k", "S", "t", "a", "t",
              "s", ".", "s", "h", "o", "w", "I", "n", "s", "i",
              "g", "h", "t", "s">>
      [] str = "gitQuickStats.showComparison" ->
          <<"g", "i", "t", "Q", "u", "i", "c", "k", "S", "t", "a", "t",
              "s", ".", "s", "h", "o", "w", "C", "o", "m", "p",
              "a", "r", "i", "s", "o", "n">>
      [] str = "gitQuickStats.executeCustomQuery" ->
          <<"g", "i", "t", "Q", "u", "i", "c", "k", "S", "t", "a", "t",
              "s", ".", "e", "x", "e", "c", "u", "t", "e", "C",
              "u", "s", "t", "o", "m", "Q", "u", "e", "r", "y">>
      [] str = "gitQuickStats.showDetailedGitStats" ->
          <<"g", "i", "t", "Q", "u", "i", "c", "k", "S", "t", "a", "t",
              "s", ".", "s", "h", "o", "w", "D", "e", "t", "a",
              "i", "l", "e", "d", "G", "i", "t", "S", "t", "a",
              "t", "s">>
      [] str = "gitQuickStats.showCommitsbyAuthor" ->
          <<"g", "i", "t", "Q", "u", "i", "c", "k", "S", "t", "a", "t",
              "s", ".", "s", "h", "o", "w", "C", "o", "m", "m",
              "i", "t", "s", "b", "y", "A", "u", "t", "h", "o",
              "r">>
      [] str = "gitQuickStats.showCommitsbyHour/Day" ->
          <<"g", "i", "t", "Q", "u", "i", "c", "k", "S", "t", "a", "t",
              "s", ".", "s", "h", "o", "w", "C", "o", "m", "m",
              "i", "t", "s", "b", "y", "H", "o", "u", "r", "/",
              "D", "a", "y">>

(* The string with the given characters. *)
Unspell(chars) == CHOOSE str \in SpelledStrings : Spell(str) = chars

(* replace(/\s/g, ""). *)
RemoveWhitespace(chars) == SelectSeq(chars, LAMBDA c : ~IsSpace(c))

(* The items of the quick pick. *)
QuickPickLabels == {"Detailed Git Stats", "Commits by Author", "Commits by Hour/Day", "Git Activity"}

(* `gitQuickStats.show${command.replace(/\s/g, "")}`. *)
CommandId(command) == Unspell(Spell("gitQuickStats.show") \o RemoveWhitespace(Spell(command)))

(* A buggy variant: the answer to the second prompt is not tested. *)
PromptsAnsweredFirstOnly(first, second) == first # ""

(* if (name) { ... if (command) { ... } }: both prompts of a save command  *)
(* were answered, neither dismissed nor left empty.                        *)
PromptsAnswered(first, second) == first # "" /\ second # ""

(* The argument of the command: the panel's saveConfiguration message, or  *)
(* nothing when the command is run from the palette.                       *)
ConfigArguments ==
    [name : Names \cup {""}, statsCommand : StatsCommands \cup {""},
     dateAfter : DatesAfter, dateBefore : {""}, author : AuthorsChoice]

(* The handler of gitQuickStats.saveConfiguration: a complete argument is  *)
(* saved as it is; otherwise the name is asked for, then the report, and a *)
(* dismissed prompt ends the command.                                      *)
saveConfigurationCommand(config, name, command) ==
    IF config.name # "" /\ config.statsCommand # ""
    THEN /\ name = "" /\ command = ""
         /\ StoreConfiguration(config)
         /\ infoMessages' = infoMessages \cup {<<"Configuration saved", config.name>>}
    ELSE IF PromptsAnswered(name, command)
    THEN /\ StoreConfiguration([name |-> name, statsCommand |-> CommandId(command),
                                dateAfter |-> "", dateBefore |-> "", author |-> ""])
         /\ infoMessages' = infoMessages \cup {<<"Configuration saved", name>>}
    ELSE /\ command # "" => name # ""
         /\ UNCHANGED vars

(* The argument of gitQuickStats.saveCustomQuery: the panel's              *)
(* saveCustomQuery message, or nothing.                                    *)
QueryArguments == [name : Names \cup {""}, query : QueryStrings \cup {""}]

(* The handler of gitQuickStats.saveCustomQuery: a complete argument is    *)
(* saved as it is; otherwise the name and the query are asked for, and a   *)
(* dismissed prompt ends the command.                                      *)
saveCustomQueryCommand(query, name, queryCommand) ==
    IF query.name # "" /\ query.query # ""
    THEN /\ name = "" /\ queryCommand = ""
         /\ StoreQuery(query)
         /\ infoMessages' = infoMessages \cup {<<"Custom query saved", query.name>>}
    ELSE IF PromptsAnswered(name, queryCommand)
    THEN /\ StoreQuery([name |-> name, query |-> queryCommand])
         /\ infoMessages' = infoMessages \cup {<<"Custom query saved", name>>}
    ELSE /\ queryCommand # "" => name # ""
         /\ UNCHANGED vars

-----------------------------------------------------------------------------
(* Custom queries: from the stored string to the tool's argument list.     *)

MaxQueryChars == 4

(* Characters of a query: a letter, a blank, a dash and a double quote. *)
QueryChars == {"l", " ", "-", "\""}

QueryInit ==
    /\ queryText = <<>>
    /\ queryRun = FALSE
    /\ queryParts = <<>>

(* The user writes the query, one character after the other. *)
QueryTyped(c) ==
    /\ ~queryRun
    /\ Len(queryText) < MaxQueryChars
    /\ queryText' = Append(queryText, c)
    /\ UNCHANGED <<queryRun, queryParts>>
    /\ QueryFrame

(* executeCustomQuery, up to the invocation: query.query.split(" ") is     *)
(* the argument list. Only non-empty queries are stored.                   *)
RunCustomQuery ==
    /\ ~queryRun
    /\ queryText # <<>>
    /\ queryRun' = TRUE
    /\ queryParts' = Split(queryText, " ")
    /\ UNCHANGED queryText
    /\ QueryFrame

-----------------------------------------------------------------------------
(* Git Activity: the table comes from "git log --all", the chart and the   *)
(* totals from "git log".                                                  *)

MaxCommits == 3

(* The days commits are made on, as ISO dates in ascending order. *)
Days == 1..2

LastDays == 30

ActivityInit ==
    /\ repoCommits = <<>>
    /\ activityTable = <<>>
    /\ activityTotal = -1
    /\ activityChart = <<>>

(* A commit is created, on the current branch or on another ref. *)
CommitCreated(day, onBranch) ==
    /\ activityTotal = -1
    /\ Len(repoCommits) < MaxCommits
    /\ repoCommits' = Append(repoCommits, [day |-> day, onBranch |-> onBranch])
    /\ UNCHANGED <<activityTable, activityTotal, activityChart>>
    /\ ActivityFrame

(* git log: every commit reachable from a ref with --all, from HEAD without. *)
GitLog(commits, all) == SelectSeq(commits, LAMBDA c : all \/ c.onBranch)

(* The last n elements: Array.slice(-n). *)
SliceLast(seq, n) == IF Len(seq) <= n THEN seq ELSE SubSeq(seq, Len(seq) - n + 1, Len(seq))

(* commitsByDay with its keys sorted, as rows <<date, commits>>. *)
CommitsByDay(timestamps) ==
    LET count(d) == Len(SelectSeq(timestamps, LAMBDA c : c.day = d))
        dated(d) == count(d) > 0
        sortedDates == SelectSeq([d \in Days |-> d], dated)
    IN  [i \in 1..Len(sortedDates) |-> <<sortedDates[i], count(sortedDates[i])>>]

(* The callback of showGitActivity. *)
showGitActivity ==
    /\ activityTotal = -1
    /\ LET result == GitLog(repoCommits, TRUE)
           timelineResult == GitLog(repoCommits, FALSE)
       IN  /\ activityTable' = [i \in 1..Len(result) |-> <<result[i].day, "author", "message">>]
           /\ activityChart' = SliceLast(CommitsByDay(timelineResult), LastDays)
           /\ activityTotal' = Len(timelineResult)
    /\ UNCHANGED repoCommits
    /\ ActivityFrame

-----------------------------------------------------------------------------
(* The singleton panel: GitStatsWebView.currentPanel and the webview       *)
(* panels of the editor.                                                   *)

MaxPanels == 3

(* Titles of reports. *)
Titles == {"Git Activity", "Git Effort", "Commits by Hour of Day"}

(* activeTextEditor.viewColumn: 0 when no editor is active. *)
Columns == 0..2

PanelInit ==
    /\ currentPanel = 0
    /\ panels = <<>>

(* The panels created and not disposed. *)
LivePanels == {i \in DOMAIN panels : ~panels[i].disposed}

(* A buggy variant: a panel is created on every call. *)
createAlways(title, column) ==
    /\ Len(panels) < MaxPanels
    /\ panels' = Append(panels, [title |-> title,
                                 column |-> IF column # 0 THEN column ELSE 1,
                                 disposed |-> FALSE])
    /\ currentPanel' = Len(panels) + 1
    /\ PanelFrame

(* GitStatsWebView.createOrShow: reveal and retitle the current panel, or  *)
(* create one (ViewColumn.One without an active editor).                   *)
createOrShow(title, column) ==
    /\ IF currentPanel # 0
       THEN /\ panels' = [panels EXCEPT ![currentPanel] =
                              [@ EXCEPT !.title = title,
                                        !.column = IF column # 0 THEN column ELSE @]]
            /\ UNCHANGED currentPanel
       ELSE /\ Len(panels) < MaxPanels
            /\ panels' = Append(panels, [title |-> title,
                                         column |-> IF column # 0 THEN column ELSE 1,
                                         disposed |-> FALSE])
            /\ currentPanel' = Len(panels) + 1
    /\ PanelFrame

(* The user closes a panel: onDidDispose runs dispose() of its wrapper,    *)
(* which clears the static currentPanel whichever wrapper it is.           *)
PanelClosed(i) ==
    /\ i \in LivePanels
    /\ panels' = [panels EXCEPT ![i].disposed = TRUE]
    /\ currentPanel' = 0
    /\ PanelFrame

-----------------------------------------------------------------------------
(* Apply Filters: the panel posts filterChanged with the statsCommand it   *)
(* was rendered with, and the registered handler of that command runs with *)
(* the values of the filter inputs.                                        *)

(* What a comparison is of: the answers to its prompts. *)
Comparisons == {<<"Branches", "Commits by Author">>, <<"Time Periods", "Code Changes">>}

ApplyInit ==
    /\ viewCommand = ""
    /\ viewSubject = <<>>
    /\ viewInputs = EmptyFilter
    /\ applyResult = ""

(* A report command has updated the panel. *)
ReportShown(command, filter) ==
    /\ viewCommand = ""
    /\ viewCommand' = command
    /\ viewSubject' = <<command>>
    /\ viewInputs' = FilterInputs(CallbackFilter(command, filter))
    /\ UNCHANGED applyResult
    /\ ApplyFrame

(* executeCustomQuery has updated the panel with the result of a query. *)
CustomQueryShown(query) ==
    /\ viewCommand = ""
    /\ viewCommand' = "gitQuickStats.executeCustomQuery"
    /\ viewSubject' = <<query.name, query.query>>
    /\ viewInputs' = FilterInputs(EmptyFilter)
    /\ UNCHANGED applyResult
    /\ ApplyFrame

(* showComparison has updated the panel with a comparison. *)
ComparisonShown(comparison) ==
    /\ viewCommand = ""
    /\ viewCommand' = "gitQuickStats.showComparison"
    /\ viewSubject' = comparison
    /\ viewInputs' = FilterInputs(EmptyFilter)
    /\ UNCHANGED applyResult
    /\ ApplyFrame

(* The registered handler of a command, run with the argument of a         *)
(* filterChanged message. A report runs with the argument as its filter;   *)
(* executeCustomQuery reads argument.query, which the message lacks, and   *)
(* its callback throws on query.query.split; showComparison asks its       *)
(* questions again and does not read the argument.                         *)
HandlerResult(command, argument) ==
    CASE command \in LiveFilterReports -> "shown"
      [] command = "gitQuickStats.executeCustomQuery" ->
             IF "query" \in DOMAIN argument THEN "shown" ELSE "TypeError"
      [] command = "gitQuickStats.showComparison" -> "prompt"
      [] OTHER -> "nothing"

(* The Apply Filters button is pressed with the inputs set to a filter. *)
ApplyFilters(filter) ==
    /\ viewCommand # ""
    /\ applyResult = ""
    /\ LET message == [command |-> "filterChanged", statsCommand |-> viewCommand,
                       dateAfter |-> filter.dateAfter, dateBefore |-> filter.dateBefore,
                       author |-> filter.author]
           argument == [dateAfter |-> message.dateAfter, dateBefore |-> message.dateBefore,
                        author |-> message.author]
           result == HandlerResult(message.statsCommand, argument)
       IN  /\ applyResult' = result
           /\ viewInputs' = IF result = "shown" /\ message.statsCommand \in LiveFilterReports
                            THEN FilterInputs(CallbackFilter(message.statsCommand, argument))
                            ELSE viewInputs
    /\ UNCHANGED <<viewCommand, viewSubject>>
    /\ ApplyFrame

-----------------------------------------------------------------------------
(* Table texts: a header line, a separator line and one line per data row, *)
(* written by a report (Commits by Author) or by executeCustomQuery.       *)

MaxResult == 5

(* Characters of tool output: a letter, a digit, a blank, the cell         *)
(* delimiter, a dash and a line break.                                     *)
ResultChars == {"a", "1", " ", "|", "-", "\n"}

TableInit ==
    /\ tableResult = <<>>
    /\ tableKind = ""
    /\ tableText = <<>>
    /\ tableHtml = <<>>

(* The tool's output grows by one character. *)
ResultGrows(c) ==
    /\ tableKind = ""
    /\ Len(tableResult) < MaxResult
    /\ tableResult' = Append(tableResult, c)
    /\ UNCHANGED <<tableKind, tableText, tableHtml>>
    /\ TableFrame

(* result.split("\n").filter((line) => line.trim() !== ""). *)
ResultLines(result) == SelectSeq(Split(result, "\n"), LAMBDA line : Trim(line) # <<>>)

(* The longest prefix of a string made of the given characters. *)
RECURSIVE LeadingRun(_, _)
LeadingRun(str, among) ==
    IF str # <<>> /\ Head(str) \in among
    THEN <<Head(str)>> \o LeadingRun(Tail(str), among)
    ELSE <<>>

(* line.match(/^\s*(\d+)\s+(.+)$/): <<commits, author>>, or <<>> without a *)
(* match. The blanks before the author are taken greedily, and the last is *)
(* given back when nothing follows them.                                   *)
MatchShortlog(line) ==
    LET body == TrimStart(line)
        commits == LeadingRun(body, {"1"})
        rest == SubSeq(body, Len(commits) + 1, Len(body))
        blanks == LeadingRun(rest, {" ", "\t"})
        author == SubSeq(rest, Len(blanks) + 1, Len(rest))
    IN  IF commits = <<>> \/ blanks = <<>> THEN <<>>
        ELSE IF author # <<>> THEN <<commits, author>>
        ELSE IF Len(blanks) >= 2 THEN <<commits, <<" ">>>>
        ELSE <<>>

(* The content of showCommitsByAuthor. *)
AuthorTable(result) ==
    LET lines == ResultLines(result)
        matches == [i \in DOMAIN lines |-> MatchShortlog(lines[i])]
        matched == SelectSeq(matches, LAMBDA match : match # <<>>)
    IN  <<"A", "u", "t", "h", "o", "r", " ", "|", " ", "C", "o", "m", "m", "i", "t", "s">> \o <<"\n">>
        \o <<"-", "-", "-", "-", "-", "-", "-", "|", "-", "-", "-", "-", "-", "-", "-", "-">> \o <<"\n">>
        \o Flatten([i \in DOMAIN matched |->
                       matched[i][2] \o <<" ", "|", " ">> \o matched[i][1] \o <<"\n">>])

(* The formattedResult of executeCustomQuery: a result with a "|" becomes  *)
(* its first line as the header, a line of "---" cells, and the other      *)
(* lines, the cells of each trimmed and joined by " | ".                   *)
QueryTable(result) ==
    LET lines == ResultLines(result)
        cells(line) == CellsOf(line)
        headers == cells(lines[1])
    IN  IF Includes(result, <<"|">>) /\ lines # <<>>
        THEN Join(headers, <<" ", "|", " ">>) \o <<"\n">>
             \o Join([i \in DOMAIN headers |-> <<"-", "-", "-">>], <<" ", "|", " ">>) \o <<"\n">>
             \o Flatten([i \in DOMAIN Tail(lines) |->
                            Join(cells(Tail(lines)[i]), <<" ", "|", " ">>) \o <<"\n">>])
        ELSE result

(* The view is rendered: the producer writes the text, updateContent the   *)
(* markup.                                                                 *)
TableShown(kind) ==
    /\ tableKind = ""
    /\ tableKind' = kind
    /\ LET content == IF kind = "report" THEN AuthorTable(tableResult)
                      ELSE QueryTable(tableResult)
       IN  /\ tableText' = content
           /\ tableHtml' = HtmlContent(content)
    /\ UNCHANGED tableResult
    /\ TableFrame

-----------------------------------------------------------------------------
(* The commit-activity chart of Git Insights. A Date is a year, a month    *)
(* 0..11 and a day of the month, in local time.                            *)

Years == 2023..2025

MonthsPerYear == 12

MonthNames == <<"Jan", "Feb", "Mar", "Apr", "May", "Jun",
                "Jul", "Aug", "Sep", "Oct", "Nov", "Dec">>

IsLeapYear(y) == (y % 4 = 0 /\ y % 100 # 0) \/ y % 400 = 0

DaysInMonth(y, m) ==
    IF m = 1 THEN (IF IsLeapYear(y) THEN 29 ELSE 28)
    ELSE IF m \in {3, 5, 8, 10} THEN 30
    ELSE 31

(* The dates of the calendar. *)
Dates ==
    {date \in [y : Years, m : 0..(MonthsPerYear - 1), d : 1..31] :
        date.d <= DaysInMonth(date.y, date.m)}

(* The date of year y, month index m (any natural number) and day d as     *)
(* Date normalises it: months past December carry into the year, days past *)
(* the end of the month carry into the next month.                         *)
MakeDate(y, m, d) ==
    LET year == y + (m \div MonthsPerYear)
        month == m % MonthsPerYear
    IN  IF d <= DaysInMonth(year, month)
        THEN [y |-> year, m |-> month, d |-> d]
        ELSE [y |-> IF month = MonthsPerYear - 1 THEN year + 1 ELSE year,
              m |-> (month + 1) % MonthsPerYear,
              d |-> d - DaysInMonth(year, month)]

(* date.setFullYear(y). *)
SetFullYear(date, y) == MakeDate(y, date.m, date.d)

(* date.setMonth(m). *)
SetMonth(date, m) == MakeDate(date.y, m, date.d)

(* `${date.getFullYear()}-${String(date.getMonth() + 1).padStart(2, "0")}` *)
(* as <<year, month number>>: with four-digit years and padded months the  *)
(* order of the strings is the order of the pairs.                         *)
MonthKey(date) == <<date.y, date.m + 1>>

KeyBefore(a, b) == a[1] < b[1] \/ (a[1] = b[1] /\ a[2] < b[2])

(* Object.keys(monthCounts).sort() for a record whose keys are month keys. *)
RECURSIVE SortKeys(_)
SortKeys(keys) ==
    IF keys = {} THEN <<>>
    ELSE LET first == CHOOSE k \in keys : \A other \in keys \ {k} : KeyBefore(k, other)
         IN  <<first>> \o SortKeys(keys \ {first})

ChartInit ==
    /\ dateNow = [y |-> 2024, m |-> 0, d |-> 1]
    /\ chartDone = FALSE
    /\ chartLabels = <<>>
    /\ chartValues = <<>>

(* Time passes: the clock shows another date. *)
ClockShows(date) ==
    /\ ~chartDone
    /\ dateNow' = date
    /\ UNCHANGED <<chartDone, chartLabels, chartValues>>
    /\ ChartFrame

(* prepareCommitActivityChart, the tool having printed the months of the   *)
(* commits since a year ago.                                               *)
prepareCommitActivityChart(months) ==
    /\ ~chartDone
    /\ LET dateOneYearAgo == SetFullYear(dateNow, dateNow.y - 1)
           keys == {MonthKey(SetMonth(dateOneYearAgo, dateOneYearAgo.m + i)) :
                       i \in 0..(MonthsPerYear - 1)}
           sortedMonths == SortKeys(keys)
           count(key) == Len(SelectSeq(months, LAMBDA month : month = key))
       IN  /\ chartLabels' = [i \in DOMAIN sortedMonths |->
                                 <<MonthNames[sortedMonths[i][2]], sortedMonths[i][1]>>]
           /\ chartValues' = [i \in DOMAIN sortedMonths |-> count(sortedMonths[i])]
    /\ chartDone' = TRUE
    /\ UNCHANGED dateNow
    /\ ChartFrame

(* What the tool prints: no commit, or a commit in the month a year ago    *)
(* and one in the current month.                                           *)
MonthsPrinted(date) == {<<>>, <<MonthKey(SetFullYear(date, date.y - 1)), MonthKey(date)>>}

-----------------------------------------------------------------------------
(* Specifications. *)

InitStore == StoreInit /\ ReportParked /\ BucketInit /\ SortInit /\ CsvInit /\ FilterInit /\ QueryInit /\ ActivityInit /\ PanelInit /\ ApplyInit /\ TableInit /\ ChartInit

StoreNext ==
    \/ \E config \in SavedConfiguration : saveConfiguration(config)
    \/ \E name \in Names : deleteConfiguration(name)
    \/ \E query \in CustomQuery : saveQuery(query)
    \/ \E name \in Names : deleteQuery(name)

(* The store under every sequence of saves and deletes. *)
SpecStore == InitStore /\ [][StoreNext]_vars

InitReport == StoreInit /\ ReportInit /\ BucketInit /\ SortInit /\ CsvInit /\ FilterInit /\ QueryInit /\ ActivityInit /\ PanelInit /\ ApplyInit /\ TableInit /\ ChartInit

(* One report action of any kind, next to the constructor's initGit. *)
ReportNext ==
    \/ \E c \in ReportCommands : Trigger(1, c)
    \/ \E p \in {0, 1}, throws \in BOOLEAN : CheckIsRepoReturns(p, throws)
    \/ \E p \in {0, 1}, ok \in BOOLEAN : LoadAuthorsReturns(p, ok)
    \/ \E ok \in BOOLEAN, n \in 0..MaxFiles : InvocationReturns(1, ok, n)
    \/ \E answer \in {"Branches", "Time Periods", "picked", "dismissed"} :
            PromptAnswered(1, answer)
    \/ \E ok \in BOOLEAN : BranchListReturns(1, ok)
    \/ ClosePanel

SpecReport == InitReport /\ [][ReportNext]_vars

(* The reports run side by side in SpecRace: a single invocation, and a    *)
(* list with one invocation per element.                                   *)
RaceCommands == {"gitQuickStats.showCommitsByHourDay", "gitQuickStats.showBranchStats"}

(* Several report actions in flight at once. *)
RaceNext ==
    \/ \E t \in Tasks, c \in RaceCommands : Trigger(t, c)
    \/ \E p \in Procs, throws \in BOOLEAN : CheckIsRepoReturns(p, throws)
    \/ \E p \in Procs, ok \in BOOLEAN : LoadAuthorsReturns(p, ok)
    \/ \E t \in Tasks, ok \in BOOLEAN, n \in 0..MaxFiles : InvocationReturns(t, ok, n)
    \/ ClosePanel

SpecRace == InitReport /\ [][RaceNext]_vars

(* The extension activated in a repository, initGit over.                  *)
InitWired ==
    StoreInit /\ ReportParked /\ BucketInit /\ SortInit /\ CsvInit /\ FilterInit /\ QueryInit /\ ActivityInit /\ PanelInit /\ ApplyInit /\ TableInit /\ ChartInit

(* Report actions in an opened repository whose authors are loaded: the    *)
(* user triggers them and closes the panel at will.                        *)
NoCancelNext ==
    \/ \E t \in Tasks, c \in RaceCommands : Trigger(t, c)
    \/ \E t \in Tasks, ok \in BOOLEAN, n \in 0..MaxFiles : InvocationReturns(t, ok, n)
    \/ ClosePanel

(* Every awaited tool invocation returns or throws in the end; when the    *)
(* user triggers an action or closes the panel is free.                    *)
SpecNoCancel ==
    /\ InitWired
    /\ [][NoCancelNext]_vars
    /\ \A t \in Tasks :
           WF_vars(\E ok \in BOOLEAN, n \in 0..MaxFiles : InvocationReturns(t, ok, n))

(* The user triggers the report actions one after the other: an action is *)
(* triggered once every action before it has been.                         *)
TriggerInTurn(t, c) ==
    /\ \A u \in Tasks : u < t => pc[u] # "idle"
    /\ Trigger(t, c)

(* Two reports of the tree view: one invocation, and two.                  *)
OrderCommands == {"gitQuickStats.showCommitsByHourDay", "gitQuickStats.showGitActivity"}

OrderNext ==
    \/ \E t \in Tasks, c \in OrderCommands : TriggerInTurn(t, c)
    \/ \E t \in Tasks, ok \in BOOLEAN, n \in 0..MaxFiles : InvocationReturns(t, ok, n)
    \/ ClosePanel

(* Report actions triggered in the order of their numbers, their           *)
(* invocations returning in any order.                                     *)
SpecOrder == InitWired /\ [][OrderNext]_vars

InitBuckets == StoreInit /\ ReportParked /\ BucketInit /\ SortInit /\ CsvInit /\ FilterInit /\ QueryInit /\ ActivityInit /\ PanelInit /\ ApplyInit /\ TableInit /\ ChartInit

BucketNext ==
    \/ \E line \in LineSamples : ToolPrints(line)
    \/ \E report \in BucketReports : ShowBucketReport(report)

(* Every bucketed report over every tool output of up to MaxLines lines. *)
SpecBuckets == InitBuckets /\ [][BucketNext]_vars

InitSort == StoreInit /\ ReportParked /\ BucketInit /\ SortInit /\ CsvInit /\ FilterInit /\ QueryInit /\ ActivityInit /\ PanelInit /\ ApplyInit /\ TableInit /\ ChartInit

SortNext ==
    \/ \E name \in NameSamples, count \in CountSamples : ToolLists(name, count)
    \/ \E kind \in SortedViews : ShowSorted(kind)

(* Every sorted view over every listing of up to MaxEntries names. *)
SpecSort == InitSort /\ [][SortNext]_vars

InitCsv == StoreInit /\ ReportParked /\ BucketInit /\ SortInit /\ CsvInit /\ FilterInit /\ QueryInit /\ ActivityInit /\ PanelInit /\ ApplyInit /\ TableInit /\ ChartInit

CsvNext ==
    \/ \E c \in ContentChars : ContentGrows(c)
    \/ updateContent
    \/ \E saveChosen \in BOOLEAN : handleExport("csv", <<"H">>, saveChosen, FALSE)

(* Every content of up to MaxChars characters, rendered and exported. *)
SpecCsv == InitCsv /\ [][CsvNext]_vars

JsonNext ==
    \/ \E c \in ContentChars : ContentGrows(c)
    \/ updateContent
    \/ \E saveChosen \in BOOLEAN : handleExport("json", <<"H">>, saveChosen, FALSE)

(* Every content of up to MaxChars characters, rendered and exported as    *)
(* JSON.                                                                   *)
SpecJson == InitCsv /\ [][JsonNext]_vars

SaveCommandNext ==
    \/ \E config \in ConfigArguments, name \in Names \cup {""},
           command \in QuickPickLabels \cup {""} :
           saveConfigurationCommand(config, name, command)
    \/ \E name \in Names : deleteConfiguration(name)

(* The save command under every argument and every answer to its prompts,  *)
(* next to deletes.                                                        *)
SpecSaveCommand == InitStore /\ [][SaveCommandNext]_vars

(* Everything a user can trigger that reaches the store: the two save     *)
(* commands, run from the palette or by a message of the panel.            *)
UserNext ==
    \/ \E config \in ConfigArguments, name \in Names \cup {""},
           command \in QuickPickLabels \cup {""} :
           saveConfigurationCommand(config, name, command)
    \/ \E query \in QueryArguments, name \in Names \cup {""},
           queryCommand \in QueryStrings \cup {""} :
           saveCustomQueryCommand(query, name, queryCommand)

(* The store under the registered commands and the panel's messages. *)
SpecUser == InitStore /\ [][UserNext]_vars

(* Characters enough for tables of several rows and columns. *)
TableChars == {"a", "|", "\n"}

ExportNext ==
    \/ \E c \in TableChars : ContentGrows(c)
    \/ updateContent
    \/ \E format \in {"csv", "json", "html"}, title \in TitleSamples,
           saveChosen \in BOOLEAN, writeThrows \in BOOLEAN :
           handleExport(format, title, saveChosen, writeThrows)

(* An export of any format, with the save dialog answered or dismissed and *)
(* the write succeeding or throwing.                                       *)
SpecExport == InitCsv /\ [][ExportNext]_vars

(* The steps that are not the user's to withhold: a tool invocation        *)
(* returns, a prompt of the comparison is answered.                        *)
WiredProgress ==
    \/ \E t \in Tasks, n \in 0..MaxFiles : InvocationReturns(t, TRUE, n)
    \/ \E t \in Tasks, answer \in {"Branches", "Time Periods", "picked"} :
           PromptAnswered(t, answer)
    \/ \E t \in Tasks : BranchListReturns(t, TRUE)

WiredNext ==
    \/ \E t \in Tasks, c \in TreeReportCommands : RunCommand(t, c)
    \/ WiredProgress

(* Leaves of the tree view clicked in a valid repository whose tool        *)
(* invocations all succeed and whose prompts are all answered.             *)
SpecWired == InitWired /\ [][WiredNext]_vars /\ WF_vars(WiredProgress)

InitFilter ==
    StoreInit /\ ReportParked /\ BucketInit /\ SortInit /\ CsvInit /\ FilterInit /\ QueryInit /\ ActivityInit /\ PanelInit /\ ApplyInit /\ TableInit /\ ChartInit

InitQuery ==
    StoreInit /\ ReportParked /\ BucketInit /\ SortInit /\ CsvInit /\ FilterInit /\ QueryInit /\ ActivityInit /\ PanelInit /\ ApplyInit /\ TableInit /\ ChartInit

QueryNext ==
    \/ \E c \in QueryChars : QueryTyped(c)
    \/ RunCustomQuery

(* Every query of up to MaxQueryChars characters, run once. *)
SpecQuery == InitQuery /\ [][QueryNext]_vars

FilterNext ==
    \E command \in LiveFilterReports \cup EmptyHandlerReports, filter \in Filters :
        RunWithFilter(command, filter)

(* Every registered report command run once with every filter. *)
SpecFilter == InitFilter /\ [][FilterNext]_vars

InitActivity ==
    StoreInit /\ ReportParked /\ BucketInit /\ SortInit /\ CsvInit /\ FilterInit /\ QueryInit /\ ActivityInit /\ PanelInit /\ ApplyInit /\ TableInit /\ ChartInit

ActivityNext ==
    \/ \E day \in Days, onBranch \in BOOLEAN : CommitCreated(day, onBranch)
    \/ showGitActivity

(* Git Activity shown once for every repository of up to MaxCommits commits. *)
SpecActivity == InitActivity /\ [][ActivityNext]_vars

InitPanel ==
    StoreInit /\ ReportParked /\ BucketInit /\ SortInit /\ CsvInit /\ FilterInit /\ QueryInit /\ ActivityInit /\ PanelInit /\ ApplyInit /\ TableInit /\ ChartInit

PanelNext ==
    \/ \E title \in Titles, column \in Columns : createOrShow(title, column)
    \/ \E i \in 1..MaxPanels : PanelClosed(i)

(* Reports shown and panels closed in any order. *)
SpecPanel == InitPanel /\ [][PanelNext]_vars

InitApply ==
    StoreInit /\ ReportParked /\ BucketInit /\ SortInit /\ CsvInit /\ FilterInit /\ QueryInit /\ ActivityInit /\ PanelInit /\ ApplyInit /\ TableInit /\ ChartInit

ApplyNext ==
    \/ \E command \in LiveFilterReports, filter \in Filters : ReportShown(command, filter)
    \/ \E query \in CustomQuery : CustomQueryShown(query)
    \/ \E comparison \in Comparisons : ComparisonShown(comparison)
    \/ \E filter \in Filters : ApplyFilters(filter)

(* A view of any kind in the panel, then Apply Filters with any filter. *)
SpecApply == InitApply /\ [][ApplyNext]_vars

InitTable ==
    StoreInit /\ ReportParked /\ BucketInit /\ SortInit /\ CsvInit /\ FilterInit /\ QueryInit /\ ActivityInit /\ PanelInit /\ ApplyInit /\ TableInit /\ ChartInit

TableNext ==
    \/ \E c \in ResultChars : ResultGrows(c)
    \/ \E kind \in {"report", "query"} : TableShown(kind)

(* Every tool output of up to MaxResult characters, tabulated by either    *)
(* producer and rendered.                                                  *)
SpecTable == InitTable /\ [][TableNext]_vars

(* The arguments of a save command run from the palette, or by the panel   *)
(* with the name left empty: the handler asks.                             *)
IncompleteConfigs ==
    {config \in ConfigArguments :
        config.name = "" /\ config.dateAfter = "" /\ config.author = ""}

IncompleteQueries == {query \in QueryArguments : query.name = ""}

(* The items picked in SpecPrompt. *)
PromptLabels == {"Git Activity", "Commits by Hour/Day"}

(* Everything that asks the user: the two save commands without a complete *)
(* argument, and one comparison.                                           *)
PromptNext ==
    \/ \E config \in IncompleteConfigs, name \in Names \cup {""},
           command \in PromptLabels \cup {""} :
           saveConfigurationCommand(config, name, command)
    \/ \E query \in IncompleteQueries, name \in Names \cup {""},
           queryCommand \in QueryStrings \cup {""} :
           saveCustomQueryCommand(query, name, queryCommand)
    \/ Trigger(1, "gitQuickStats.showComparison")
    \/ \E answer \in {"Branches", "Time Periods", "picked", "dismissed"} :
           PromptAnswered(1, answer)
    \/ \E ok \in BOOLEAN : BranchListReturns(1, ok)
    \/ \E ok \in BOOLEAN, n \in 0..MaxFiles : InvocationReturns(1, ok, n)
    \/ ClosePanel

(* The prompts answered or dismissed in every way. *)
SpecPrompt == InitStore /\ [][PromptNext]_vars

InitChart ==
    StoreInit /\ ReportParked /\ BucketInit /\ SortInit /\ CsvInit /\ FilterInit /\ QueryInit /\ ActivityInit /\ PanelInit /\ ApplyInit /\ TableInit /\ ChartInit

ChartNext ==
    \/ \E date \in Dates : ClockShows(date)
    \/ \E months \in MonthsPrinted(dateNow) : prepareCommitActivityChart(months)

(* The chart prepared on every date of the calendar. *)
SpecChart == InitChart /\ [][ChartNext]_vars

-----------------------------------------------------------------------------
(* The entries a list holds under a name. *)
EntriesNamed(list, name) == SelectSeq(list, LAMBDA c : c.name = name)

(* C1: last write with the same name wins. Starting from an empty store,   *)
(* after any sequence of saves and deletes neither persisted list holds    *)
(* two entries with one name, and the entries held under a name are        *)
(* exactly the record most recently saved under it (none after a delete).  *)
C1_LastWriteWins ==
    \A n \in Names :
        /\ Len(EntriesNamed(savedConfigurations, n)) <= 1
        /\ EntriesNamed(savedConfigurations, n) = lastConfig[n]
        /\ Len(EntriesNamed(customQueries, n)) <= 1
        /\ EntriesNamed(customQueries, n) = lastQuery[n]

(* A save has replaced an earlier record of the same name, and both lists  *)
(* hold entries. *)
C1_Witness ==
    /\ overwritten
    /\ Len(savedConfigurations) = 2
    /\ Len(customQueries) >= 1

-----------------------------------------------------------------------------
(* Report actions: error handling and the shape of a computation. *)

(* A step of action t or of its initGit call. *)
TaskStep(t) == pc'[t] # pc[t] \/ todo'[t] # todo[t] \/ initPc'[t] # initPc[t]

(* Action t has been triggered and has neither finished nor failed. *)
InFlight(t) == pc[t] \notin {"idle", "returned", "rendered", "rejected"}

(* C2: when a tool invocation (or the parsing after it) throws out of a    *)
(* report action's computation, an error notification is shown for that    *)
(* action.                                                                 *)
C2_ErrorShownOnThrow == \A t \in Tasks : uncaught[t] => errorShown[t]

(* C3, as claimed: once any tool invocation of a report action has failed, *)
(* the panel is not updated with output of that action.                    *)
C3_NoPartialOutput ==
    \A t \in Tasks : (swallowed[t] \/ uncaught[t]) => pc[t] # "rendered"

(* C3, amended: once an invocation outside generateInsights and outside    *)
(* the per-file and per-branch try blocks has failed, the action never     *)
(* updates the panel; the panel shows nothing it computed.                 *)
C3_UncaughtFailureNeverRenders ==
    \A t \in Tasks : uncaught[t] => (pc[t] = "rejected" /\ panel.by # t)

(* A report that lost its first invocation while another's output is up    *)
(* cannot happen with one action; here the action has failed after at      *)
(* least one invocation succeeded.                                         *)
C3_Witness == \E t \in Tasks : uncaught[t] /\ okCount[t] >= 1 /\ pc[t] = "rejected"

(* C4: without a workspace folder, or in a folder that is no repository,   *)
(* no report action issues a report tool invocation or touches the panel,  *)
(* and each one that has ended has shown an error notification.            *)
C4_NoRepositoryNoReport ==
    workspace # "repo" =>
        \A t \in Tasks :
            /\ invs[t] = 0
            /\ panel.by # t
            /\ pc[t] \in {"returned", "rendered", "rejected"} => errorShown[t]

(* C5, as claimed: while two report computations are in flight, no step of *)
(* one writes a variable the other reads or writes (the panel, the git     *)
(* handle, the author list).                                               *)
C5_NoSharedMutableState ==
    [][\A t \in Tasks :
          (TaskStep(t) /\ \E u \in Tasks \ {t} : InFlight(u))
              => UNCHANGED <<panel, git, authors>>]_vars

(* C5, amended: a step of one report computation leaves every local of the *)
(* other computations alone, and the panel it updates shows the results it *)
(* collected itself; what computations share is the panel, the git handle  *)
(* and the author list.                                                    *)
C5_LocalsPrivate ==
    [][\A t \in Tasks :
          TaskStep(t) =>
              /\ \A u \in Tasks \ {t} :
                    /\ okCount'[u] = okCount[u]
                    /\ swallowed'[u] = swallowed[u]
                    /\ todo'[u] = todo[u]
                    /\ pc'[u] = pc[u]
                    /\ cmd'[u] = cmd[u]
              /\ (pc[t] # "rendered" /\ pc'[t] = "rendered") =>
                    /\ panel'.by = t
                    /\ panel'.statsCommand = cmd[t]
                    /\ panel'.n = okCount'[t]]_vars

(* Two computations are in flight and each has collected a result. *)
C5_Witness ==
    /\ pc[1] = "run" /\ pc[2] = "run"
    /\ okCount[1] >= 1 /\ okCount[2] >= 1

(* C6, as claimed: an action that has updated the panel has issued exactly *)
(* one tool invocation.                                                    *)
C6_ExactlyOneInvocation == \A t \in Tasks : pc[t] = "rendered" => invs[t] = 1

(* C6, amended: an action that has updated the panel has issued at least   *)
(* one report tool invocation, and exactly one when it is the hour-of-day, *)
(* hour-of-week, weekday or year report or a custom query.                 *)
C6_AtLeastOneInvocation ==
    \A t \in Tasks :
        pc[t] = "rendered" =>
            /\ invs[t] >= 1
            /\ cmd[t] \in OneShotReports => invs[t] = 1

(* Detailed Git Stats has updated the panel after its seven invocations. *)
C6_Witness ==
    /\ pc[1] = "rendered"
    /\ cmd[1] = "gitQuickStats.showDetailedStats"
    /\ invs[1] = 7

(* C7: the promise of a report method settles only after the panel has     *)
(* been updated with the report or the error notification has been shown.  *)
C7_SettlesAfterOutcome ==
    \A t \in Tasks : settled[t] => (pc[t] = "rendered" \/ errorShown[t])

-----------------------------------------------------------------------------
(* Bucketed reports. *)

(* The counts of rows lo..hi added up. *)
RECURSIVE SumRows(_, _, _)
SumRows(table, lo, hi) ==
    IF lo > hi THEN 0
    ELSE IF lo = hi THEN table[lo].v
    ELSE LET mid == (lo + hi) \div 2
         IN  SumRows(table, lo, mid) + SumRows(table, mid + 1, hi)

SumCounts(table) == SumRows(table, 1, Len(table))

(* The parsed records whose key is one of the report's initial buckets. *)
RecordsInBuckets(report, records) ==
    Cardinality({i \in DOMAIN records : KeyOf(report, records[i]) \in Range(FixedKeys(report))})

-----------------------------------------------------------------------------
(* Sorted views. *)

(* The position at which a key was first inserted into the counts. *)
FirstInsertion(kind, input, key) ==
    CHOOSE i \in DOMAIN input :
        /\ SortKey(kind, input[i].k) = key
        /\ \A j \in 1..(i - 1) : SortKey(kind, input[j].k) # key

(* Counts never increase down the rows. *)
Descending(rows) == \A i, j \in DOMAIN rows : i < j => rows[i].v >= rows[j].v

(* C9: in every sorted view the entries are in non-increasing count order  *)
(* and entries with equal counts keep the order of their first insertion.  *)
C9_StableDescending ==
    sortKind # "" =>
        /\ Descending(sortRows)
        /\ \A i, j \in DOMAIN sortRows :
              (i < j /\ sortRows[i].v = sortRows[j].v) =>
                  FirstInsertion(sortKind, sortInput, sortRows[i].k)
                      < FirstInsertion(sortKind, sortInput, sortRows[j].k)

-----------------------------------------------------------------------------
(* CSV export. *)

(* Reading a line of quoted fields from position i on: a field opens with  *)
(* a double quote, "" inside it stands for one double quote, a single one  *)
(* closes it, and a comma leads to the next field.                         *)
RECURSIVE ReadFields(_, _, _, _)
ReadFields(line, i, inField, fields) ==
    IF i > Len(line) THEN [ok |-> ~inField, fields |-> fields]
    ELSE IF ~inField
    THEN IF line[i] = "\"" THEN ReadFields(line, i + 1, TRUE, Append(fields, <<>>))
         ELSE [ok |-> FALSE, fields |-> fields]
    ELSE IF line[i] # "\""
    THEN ReadFields(line, i + 1, TRUE,
                    [fields EXCEPT ![Len(fields)] = Append(@, line[i])])
    ELSE IF i < Len(line) /\ line[i + 1] = "\""
    THEN ReadFields(line, i + 2, TRUE,
                    [fields EXCEPT ![Len(fields)] = Append(@, "\"")])
    ELSE IF i = Len(line) THEN [ok |-> TRUE, fields |-> fields]
    ELSE IF line[i + 1] = "," /\ i + 1 < Len(line)
    THEN ReadFields(line, i + 2, FALSE, fields)
    ELSE [ok |-> FALSE, fields |-> fields]

(* The un-quoted fields of a CSV line. *)
Unquote(line) == ReadFields(line, 1, FALSE, <<>>)

(* C10: when a rendered table is exported as CSV, the file has one line    *)
(* per table row and un-quoting the fields of each line gives back exactly *)
(* the cell values of that row, in order.                                  *)
C10_CsvRoundTrips ==
    (csvStage = "exported" /\ exportFormat = "csv" /\ Includes(csvContent, <<"|">>)) =>
        LET lines == Split(csvFile, "\n")
            table == TableCells(csvContent)
        IN  /\ Len(lines) = Len(table)
            /\ \A i \in DOMAIN table :
                  i \in DOMAIN lines /\ Unquote(lines[i]) = [ok |-> TRUE, fields |-> table[i]]

-----------------------------------------------------------------------------
(* JSON export. *)

(* C11: when a rendered table is exported as JSON, the result holds one    *)
(* object per data row, in row order, and the object's value under each    *)
(* header is the cell of that row in the header's column.                  *)
C11_JsonRoundTrips ==
    (csvStage = "exported" /\ exportFormat = "json" /\ Includes(csvContent, <<"|">>)) =>
        LET table == TableCells(csvContent)
            headers == Head(table)
            result == JsonResult(csvHtml)
        IN  /\ csvFile = JsonStringify(result)
            /\ Len(result) = Len(table) - 1
            /\ \A i \in DOMAIN result :
                  \A j \in DOMAIN headers :
                      j \in DOMAIN table[i + 1] =>
                          /\ ObjHas(result[i], headers[j])
                          /\ ObjGet(result[i], headers[j]) = table[i + 1][j]

-----------------------------------------------------------------------------
(* Filters. *)

(* Some invocation carries the argument. *)
Carries(calls, option, value) ==
    \E i \in DOMAIN calls : \E j \in DOMAIN calls[i] :
        calls[i][j] = [opt |-> option, val |-> value]

(* C12: a report that invokes the tool carries --after=, --before= and     *)
(* --author= for each non-empty field of the filter it was given.          *)
C12_FilterReachesTool ==
    (filterCmd # "" /\ toolCalls # <<>>) =>
        /\ filterGiven.dateAfter # "" => Carries(toolCalls, "--after=", filterGiven.dateAfter)
        /\ filterGiven.dateBefore # "" => Carries(toolCalls, "--before=", filterGiven.dateBefore)
        /\ filterGiven.author # "" => Carries(toolCalls, "--author=", filterGiven.author)

-----------------------------------------------------------------------------
(* The save command. *)

(* C13: every configuration the save command stores names a registered     *)
(* report command.                                                         *)
C13_StoredCommandRegistered ==
    \A i \in DOMAIN savedConfigurations :
        savedConfigurations[i].statsCommand \in ReportCommands

-----------------------------------------------------------------------------
(* Loading a saved configuration. *)

-----------------------------------------------------------------------------
(* Deleting. *)

(* C15: whenever the store holds a configuration or a query, some          *)
(* registered command or panel message applies deleteConfiguration or      *)
(* deleteQuery to an entry it holds.                                       *)
C15_EntryCanBeDeleted ==
    /\ savedConfigurations # <<>> =>
           ENABLED (UserNext /\ \E name \in Names :
                        /\ FindIndex(savedConfigurations, name) >= 1
                        /\ savedConfigurations' = FilterOutName(savedConfigurations, name))
    /\ customQueries # <<>> =>
           ENABLED (UserNext /\ \E name \in Names :
                        /\ FindIndex(customQueries, name) >= 1
                        /\ customQueries' = FilterOutName(customQueries, name))

-----------------------------------------------------------------------------
(* Frame of save and delete. *)

(* The entries of a list stored under other names, in order. *)
OthersOf(list, name) == SelectSeq(list, LAMBDA e : e.name # name)

Stored(list, name) == \E i \in DOMAIN list : list[i].name = name

(* C16: a save or a delete leaves every entry stored under another name    *)
(* unchanged and in place, leaves the other collection alone, and a delete *)
(* of a name that is not stored changes nothing.                           *)
C16_OnlyNamedEntryTouched ==
    [][ /\ \A config \in SavedConfiguration :
               saveConfiguration(config) =>
                   /\ OthersOf(savedConfigurations', config.name)
                          = OthersOf(savedConfigurations, config.name)
                   /\ customQueries' = customQueries
        /\ \A query \in CustomQuery :
               saveQuery(query) =>
                   /\ OthersOf(customQueries', query.name) = OthersOf(customQueries, query.name)
                   /\ savedConfigurations' = savedConfigurations
        /\ \A name \in Names :
               deleteConfiguration(name) =>
                   /\ OthersOf(savedConfigurations', name) = OthersOf(savedConfigurations, name)
                   /\ ~Stored(savedConfigurations, name) =>
                          savedConfigurations' = savedConfigurations
                   /\ customQueries' = customQueries
        /\ \A name \in Names :
               deleteQuery(name) =>
                   /\ OthersOf(customQueries', name) = OthersOf(customQueries, name)
                   /\ ~Stored(customQueries, name) => customQueries' = customQueries
                   /\ savedConfigurations' = savedConfigurations
      ]_vars

(* After a delete, one configuration is left next to two queries. *)
C16_Witness ==
    /\ Len(savedConfigurations) = 1
    /\ Len(customQueries) = 2
    /\ \E n \in Names : lastConfig[n] = <<>> /\ Stored(customQueries, n)
    /\ overwritten

-----------------------------------------------------------------------------
(* Custom queries. *)

(* The arguments written one after the other, a single blank between two. *)
RECURSIVE SpaceJoined(_)
SpaceJoined(parts) ==
    IF parts = <<>> THEN <<>>
    ELSE IF Len(parts) = 1 THEN parts[1]
    ELSE parts[1] \o <<" ">> \o SpaceJoined(Tail(parts))

(* C17: the argument list executeCustomQuery hands to the tool, joined by  *)
(* single blanks, is the stored query string.                              *)
C17_QueryVerbatim == queryRun => SpaceJoined(queryParts) = queryText

(* A query with two blanks in a row has been run: one argument is empty. *)
C17_Witness ==
    /\ queryRun
    /\ Len(queryParts) = 3
    /\ queryParts[2] = <<>>
    /\ queryParts[1] # <<>>

-----------------------------------------------------------------------------
(* Export. *)

(* C18: after a dismissed save dialog nothing is written and nothing       *)
(* notified; after a chosen destination the file holds the content         *)
(* converted to the requested format and success is notified; after a      *)
(* write that threw, 'Export failed' is notified and not success.          *)
C18_ExportOutcome ==
    /\ csvStage = "dismissed" => (csvFile = <<>> /\ notification = "")
    /\ csvStage = "exported" =>
           /\ notification = "Successfully exported"
           /\ exportFormat = "csv" => csvFile = convertToCSV(csvHtml)
           /\ exportFormat = "json" => csvFile = convertToJSON(csvHtml)
           /\ exportFormat = "html" =>
                  \E title \in TitleSamples : csvFile = convertToHTML(title, csvHtml)
    /\ csvStage = "failed" => notification = "Export failed"

(* A table of two rows has been exported as a standalone page. *)
C18_Witness ==
    /\ csvStage = "exported"
    /\ exportFormat = "html"
    /\ notification = "Successfully exported"
    /\ Includes(csvContent, <<"|">>)
    /\ Len(TableCells(csvContent)) = 2
    /\ Includes(csvFile, csvHtml)

-----------------------------------------------------------------------------
(* The registration layer. *)

(* C19: in a valid repository, a report command of the tree view that has  *)
(* been triggered and has not shown its report yet eventually has its      *)
(* report in the panel.                                                    *)
C19_TreeCommandShowsReport ==
    \A t \in Tasks : \A c \in TreeReportCommands :
        (cmd[t] = c /\ pc[t] # "rendered") ~> (panel.open /\ panel.statsCommand = c)

-----------------------------------------------------------------------------
(* No cancellation. *)

(* C20: a report action whose callback has started ends with its report in *)
(* the panel, whatever the user closes or triggers meanwhile, unless one   *)
(* of its tool invocations throws outside the callback's try blocks.       *)
C20_StartedReportIsShown ==
    \A t \in Tasks :
        (pc[t] = "run") ~> ((pc[t] = "rendered" /\ panel.open /\ panel.by = t) \/ uncaught[t])

(* The panel of one report has been closed while another report, started   *)
(* before, is still computing.                                             *)
C20_Witness ==
    /\ pc[1] = "run"
    /\ invs[1] > 1
    /\ pc[2] = "rendered"
    /\ ~panel.open

-----------------------------------------------------------------------------
(* One report, one set of commits. *)

(* C21: in the Git Activity report the insight "Total commits in period"   *)
(* equals the number of data rows of the table, for every repository.      *)
C21_TotalIsTableRows ==
    activityTotal # -1 => activityTotal = Len(activityTable)

-----------------------------------------------------------------------------
(* The panel after two actions. *)

(* The action triggered last. *)
LastTriggered == CHOOSE t \in Tasks : \A u \in Tasks : u <= t

(* C22: when the report actions have been triggered one after the other    *)
(* and all have completed, the open panel shows the report of the action   *)
(* triggered last.                                                         *)
C22_LastTriggeredShown ==
    ((\A t \in Tasks : pc[t] = "rendered") /\ panel.open) =>
        /\ panel.statsCommand = cmd[LastTriggered]
        /\ panel.n = okCount[LastTriggered]

-----------------------------------------------------------------------------
(* The singleton panel. *)

(* C23: at most one stats panel exists, currentPanel is set exactly when   *)
(* a panel has been created and not disposed and then names that panel; a  *)
(* panel is created only when currentPanel is unset, and a call of         *)
(* createOrShow with currentPanel set reuses the panel.                    *)
C23_SingletonPanel ==
    /\ [](/\ Cardinality(LivePanels) <= 1
          /\ currentPanel # 0 <=> LivePanels # {}
          /\ currentPanel # 0 => LivePanels = {currentPanel})
    /\ [][/\ Len(panels') > Len(panels) =>
                (currentPanel = 0 /\ currentPanel' = Len(panels') /\ Len(panels') = Len(panels) + 1)
          /\ (currentPanel # 0 /\ currentPanel' # 0) =>
                (currentPanel' = currentPanel /\ Len(panels') = Len(panels))]_vars

(* A panel has been closed and the next report has created a fresh one.    *)
C23_Witness ==
    /\ Len(panels) = 2
    /\ panels[1].disposed
    /\ currentPanel = 2
    /\ ~panels[2].disposed

-----------------------------------------------------------------------------
(* The dates shown and the dates used. *)

(* The values an option has in the invocations that carry it. *)
ValuesOf(calls, option) ==
    {calls[i][j].val : <<i, j>> \in {<<i, j>> \in (DOMAIN calls) \X (1..8) :
                                      j \in DOMAIN calls[i] /\ calls[i][j].opt = option}}

(* C24: the dates in the panel's filter inputs are the --after and         *)
(* --before values handed to the tool for the report shown.                *)
C24_ShownDatesAreUsed ==
    (filterCmd \in LiveFilterReports /\ filterCmd # "gitQuickStats.showInsights") =>
        /\ ValuesOf(toolCalls, "--after=") = {filterShown.dateAfter}
        /\ ValuesOf(toolCalls, "--before=") = {filterShown.dateBefore}

-----------------------------------------------------------------------------
(* Reports and the initialisation of the repository. *)

(* C25: a report action issues a tool invocation only in a workspace that  *)
(* is a repository and while no initGit is awaiting checkIsRepo, and it    *)
(* updates the panel only while no initGit is awaiting checkIsRepo or      *)
(* loadAuthors.                                                            *)
C25_NoReportBeforeConfirmed ==
    [][\A t \in Tasks :
          /\ invs'[t] > invs[t] =>
                (workspace = "repo" /\ \A p \in Procs : initPc'[p] # "check")
          /\ (pc[t] # "rendered" /\ pc'[t] = "rendered") =>
                \A p \in Procs : initPc'[p] \notin {"check", "authors"}]_vars

-----------------------------------------------------------------------------
(* Apply Filters. *)

(* C26: whatever view the panel holds, pressing Apply Filters runs a       *)
(* command that takes the filter argument and shows that view's report     *)
(* again.                                                                  *)
C26_ApplyRerunsReport == applyResult # "" => applyResult = "shown"

-----------------------------------------------------------------------------
(* Separator rows. *)

(* The rows of <td> cells in the markup. *)
TdRows(html) ==
    Cardinality({i \in DOMAIN html : html[i] = "<tr>" /\ i < Len(html) /\ html[i + 1] = "<td>"})

(* C27: the markup of a produced table has one row of <td> cells for each  *)
(* non-empty line of the table text other than its header line and its     *)
(* separator line.                                                         *)
C27_SeparatorNeverShown ==
    (tableKind # "" /\ Includes(tableText, <<"|">>) /\ Len(ContentRows(tableText)) >= 2) =>
        TdRows(tableHtml) = Len(ContentRows(tableText)) - 2

-----------------------------------------------------------------------------
(* The trees after a change of the store. *)

(* C28: the list each provider serves is the persisted list, the listeners *)
(* of its last change event were served that list, and every save and      *)
(* delete fires the event of its provider.                                 *)
C28_TreeFollowsStore ==
    /\ [](/\ configurations = savedConfigurations
          /\ queries = customQueries
          /\ configEvent.fired => configEvent.seen = savedConfigurations
          /\ queryEvent.fired => queryEvent.seen = customQueries)
    /\ [][/\ ((\E config \in SavedConfiguration : saveConfiguration(config))
                \/ (\E name \in Names : deleteConfiguration(name)))
              => (configEvent'.fired /\ configEvent'.seen = savedConfigurations')
          /\ ((\E query \in CustomQuery : saveQuery(query))
                \/ (\E name \in Names : deleteQuery(name)))
              => (queryEvent'.fired /\ queryEvent'.seen = customQueries')]_vars

(* An entry has been saved over and another deleted: both trees have been  *)
(* told of a list that is not empty.                                       *)
C28_Witness ==
    /\ overwritten
    /\ configEvent.fired /\ configEvent.seen # <<>> /\ configEvent.seen = configurations
    /\ queryEvent.fired /\ queryEvent.seen # <<>> /\ queryEvent.seen = queries

-----------------------------------------------------------------------------
(* Dismissed prompts. *)

(* C29: a save command run without a complete argument whose name prompt   *)
(* or second prompt is dismissed or left empty leaves both persisted lists *)
(* and both trees as they are and shows no "saved" message; a comparison   *)
(* with a dismissed prompt returns without touching the panel, and the     *)
(* panel never shows a report of it.                                       *)
C29_DismissChangesNothing ==
    /\ [][/\ \A config \in IncompleteConfigs, name \in Names \cup {""},
                command \in PromptLabels \cup {""} :
                ((name = "" \/ command = "") /\ saveConfigurationCommand(config, name, command))
                    => UNCHANGED <<savedConfigurations, configurations, customQueries,
                                   queries, configEvent, queryEvent, infoMessages>>
          /\ \A query \in IncompleteQueries, name \in Names \cup {""},
                queryCommand \in QueryStrings \cup {""} :
                ((name = "" \/ queryCommand = "") /\ saveCustomQueryCommand(query, name, queryCommand))
                    => UNCHANGED <<savedConfigurations, configurations, customQueries,
                                   queries, configEvent, queryEvent, infoMessages>>
          /\ \A t \in Tasks :
                (cmd[t] = "gitQuickStats.showComparison" /\ PromptAnswered(t, "dismissed"))
                    => (panel' = panel /\ pc'[t] = "returned" /\ invs'[t] = invs[t])]_vars
    /\ [](\A t \in Tasks :
             (cmd[t] = "gitQuickStats.showComparison" /\ pc[t] = "returned")
                 => ~(panel.open /\ panel.by = t))

(* Something has been saved after its prompts were answered, and a         *)
(* comparison has listed the branches and then met a dismissed prompt.     *)
C29_Witness ==
    /\ infoMessages # {}
    /\ savedConfigurations # <<>>
    /\ customQueries # <<>>
    /\ cmd[1] = "gitQuickStats.showComparison"
    /\ pc[1] = "returned"
    /\ okCount[1] = 1
    /\ ~errorShown[1]

-----------------------------------------------------------------------------
(* Twelve months. *)

(* The number of a label's month, counted from year 0. *)
MonthNumber(label) ==
    label[2] * MonthsPerYear + (CHOOSE m \in DOMAIN MonthNames : MonthNames[m] = label[1])

(* C30: on every date the commit-activity chart has 12 labels, each the    *)
(* month after the one before it, and as many values as labels.            *)
C30_TwelveMonths ==
    chartDone =>
        /\ Len(chartLabels) = MonthsPerYear
        /\ \A i \in 1..(Len(chartLabels) - 1) :
               MonthNumber(chartLabels[i + 1]) = MonthNumber(chartLabels[i]) + 1
        /\ Len(chartValues) = Len(chartLabels)

====
